---- MODULE Spec2Model ----
(***************************************************************************)
(* Model of the CRAC builder of the RAO virtual operator                   *)
(* (src/rao/crac/builder.py, src/rao/crac/models.py).                      *)
(*                                                                         *)
(* One build_crac call is the sequence of steps                            *)
(*   build_crac -> process_contingencies -> process_cnecs ->               *)
(*   process_remedial_actions -> update_limits_from_network ->             *)
(*   perform_cnec_consistency_check -> return self.crac (serialization)    *)
(* and every step is one action.  A Python exception raised inside a step  *)
(* ends the call in pc = "raised" with the exception's name in exc.        *)
(*                                                                         *)
(* Numbers (limits, voltages, thresholds) are counted in tenths, so that   *)
(* round(x, 1) is an integer rounding.                                     *)
(***************************************************************************)
EXTENDS Integers, Sequences, FiniteSets, TLC

VARIABLES
    data,       \* CracBuilder.data: the CO + AE + RA profiles
    network,    \* CracBuilder.network: the grid model
    limits,     \* CracBuilder.limits
    crac,       \* CracBuilder._crac
    args,       \* the contingency_ids argument of the build_crac call
    pc,         \* position inside build_crac
    exc,        \* the exception that ended the call, "none" otherwise
    result,     \* the document build_crac returned, or builder.crac read last
    history,    \* the documents the caller got from the builder, with the arguments
    message,    \* HandlerVirtualOperator: the message handled and the handler's settings
    hpc,        \* HandlerVirtualOperator.handle: position inside handle
    events,     \* HandlerVirtualOperator.handle: the calls to other services, in order
    todo,       \* HandlerVirtualOperator.handle: the contingencies the loop has yet to take
    raised,     \* HandlerVirtualOperator.handle: the exception that ended it, "none" otherwise
    storage,    \* ObjectStorage: the metadata index and the request made to it
    files_downloaded,  \* ObjectStorage.get_latest_input_data: the contents returned
    heap,       \* the Python objects of the settings managers: dictionaries and lists
    settings,   \* RaoSettingsManager / LoadflowSettingsManager: config and the last call
    s3,         \* S3Minio: the clock, token_expiration, client and the requests issued
    threads,    \* S3Minio: the position of each concurrent caller inside its call
    flattener,  \* CIMFlattener: the graph and the objects built from it
    elastic     \* Elastic.send_to_elastic_bulk: the call and the requests posted

builderVars == <<data, network, limits, crac, args, pc, exc, result, history>>
handlerVars == <<message, hpc, events, todo, raised>>
storageVars == <<storage, files_downloaded>>
settingsVars == <<heap, settings>>
s3Vars == <<s3, threads>>
serviceVars == <<settingsVars, s3Vars, flattener, elastic>>
coreVars == <<builderVars, handlerVars, storageVars>>
vars == <<builderVars, handlerVars, storageVars, serviceVars>>

(***************************************************************************)
(* Bounds of the explored inputs.                                          *)
(***************************************************************************)
MaxAE == 2
MaxLimits == 3
MaxAlterations == 2
MaxCalls == 3
MaxRows == 2
MaxRecords == 3
MaxOps == 3
MaxTime == 6
MaxTriples == 3
MaxDepth == 3
MaxDocs == 2
MaxBatch == 3

(***************************************************************************)
(* Python values.  A float is a record: a number of tenths, the float nan, *)
(* or None (the result of dict.get on a missing key).  A missing string    *)
(* cell of a table view is the string NaN; an unset Optional[str] is the   *)
(* string NoneStr.                                                         *)
(***************************************************************************)
Num(n) == [tag |-> "num", n |-> n]
NaNf == [tag |-> "nan", n |-> 0]
None == [tag |-> "none", n |-> 0]
NaN == "NaN"
NoneStr == "None"

\* bool(x) of a float or None: nan is truthy, 0 and None are falsy
Truthy(x) == x.tag = "nan" \/ (x.tag = "num" /\ x.n # 0)
\* x == 0 of a float: nan == 0 is False
EqZero(x) == x.tag = "num" /\ x.n = 0
\* x * -1
Negate(x) == IF x.tag = "num" THEN Num(0 - x.n) ELSE x

\* round(num / den) to the nearest integer, ties to even (Python's round, numpy's round)
RoundHalfEven(num, den) ==
    LET q == num \div den
        r == num % den
    IN  IF 2 * r < den THEN q
        ELSE IF 2 * r > den THEN q + 1
        ELSE IF q % 2 = 0 THEN q ELSE q + 1

(***************************************************************************)
(* Identifiers.  groupby iterates its keys in sorted order: IdOrder lists  *)
(* the mRIDs of the model in that order.                                   *)
(***************************************************************************)
IdOrder == <<"CO1", "CO2", "CO3", "CO4", "RA0", "RA1", "RA2">>

RECURSIVE SortedFrom(_, _)
SortedFrom(i, S) ==
    IF i > Len(IdOrder) THEN <<>>
    ELSE (IF IdOrder[i] \in S THEN <<IdOrder[i]>> ELSE <<>>) \o SortedFrom(i + 1, S)

\* the keys of a groupby over a column holding the values S
GroupKeys(S) == SortedFrom(1, S)

Elements(s) == {s[i] : i \in DOMAIN s}

(***************************************************************************)
(* crac/models.py                                                          *)
(***************************************************************************)
\* Threshold(): unit 'ampere', min 0, max 0, side 1
Threshold(unit, min, max, side) == [unit |-> unit, min |-> min, max |-> max, side |-> side]
ThresholdDefault == Threshold("ampere", Num(0), Num(0), 1)

\* Cnec / FlowCnec with the defaults of the class
FlowCnec(id, name, description, networkElementId, operator, thresholds, optimized, monitored) ==
    [id |-> id, name |-> name, description |-> description,
     networkElementId |-> networkElementId, operator |-> operator,
     thresholds |-> thresholds, instant |-> "preventive",
     optimized |-> optimized, monitored |-> monitored,
     nominalV |-> <<Num(3300)>>, contingencyId |-> NoneStr]

Contingency(id, name, networkElementsIds) ==
    [id |-> id, name |-> name, networkElementsIds |-> networkElementsIds]

\* Crac(): the three collections the builder fills (the constant header fields are left out)
Crac == [contingencies |-> <<>>, flowCnecs |-> <<>>, networkActions |-> <<>>]

NotBuilt == [built |-> FALSE, contingencies |-> <<>>, flowCnecs |-> <<>>, networkActions |-> <<>>]
Built(c) == [built |-> TRUE, contingencies |-> c.contingencies,
             flowCnecs |-> c.flowCnecs, networkActions |-> c.networkActions]

(***************************************************************************)
(* Inputs: the contingency profile.                                        *)
(* A contingency row: mRID, name, the value of Contingency.normalMustStudy *)
(* (NaN: the contingency has no such attribute) and the equipment of its   *)
(* ContingencyEquipment objects.                                           *)
(***************************************************************************)
ContingencyCatalog ==
    { [mRID |-> "CO1", name |-> "N-1 E2", normalMustStudy |-> "true", equipment |-> <<"E2">>],
      [mRID |-> "CO2", name |-> "N-2 E4 EX", normalMustStudy |-> "false", equipment |-> <<"E4", "EX">>],
      [mRID |-> "CO3", name |-> "no equipment", normalMustStudy |-> "true", equipment |-> <<>>],
      [mRID |-> "CO4", name |-> "no must study", normalMustStudy |-> NaN, equipment |-> <<"E1">>] }

ContingencyIds == {c.mRID : c \in ContingencyCatalog} \cup {"COX"}

\* contingency_ids: None, or a list given as the set of its elements
NoIds == [given |-> FALSE, ids |-> {}]
Ids(S) == [given |-> TRUE, ids |-> S]
ContingencyArgs == {NoIds} \cup {Ids(S) : S \in SUBSET ContingencyIds}

(***************************************************************************)
(* process_contingencies                                                   *)
(***************************************************************************)
\* the inner merge of Contingency.normalMustStudy with ContingencyEquipment:
\* the contingencies that have the attribute and at least one equipment
MergedContingencies(d) ==
    {c \in d.contingencies : c.normalMustStudy # NaN /\ Len(c.equipment) > 0}

ContingencyOf(S, mrid) == CHOOSE c \in S : c.mRID = mrid

\* the filter applied to every list that is given, the empty one too
FilteredContingencies_empty_list_filters(d, specific) ==
    IF specific.given
    THEN {c \in MergedContingencies(d) : c.mRID \in specific.ids}
    ELSE MergedContingencies(d)

\* the rows left after the filter by specific_contingencies (a falsy argument, None or
\* an empty list, filters nothing)
FilteredContingencies(d, specific) ==
    IF specific.given /\ specific.ids # {}
    THEN {c \in MergedContingencies(d) : c.mRID \in specific.ids}
    ELSE MergedContingencies(d)

RECURSIVE ContingencyList(_, _)
ContingencyList(S, keys) ==
    IF keys = <<>> THEN <<>>
    ELSE LET c == ContingencyOf(S, Head(keys))
         IN  <<Contingency(c.mRID, c.name, c.equipment)>> \o ContingencyList(S, Tail(keys))

process_contingencies(c, d, specific) ==
    LET rows == FilteredContingencies(d, specific)
    IN  [c EXCEPT !.contingencies = c.contingencies \o
                      ContingencyList(rows, GroupKeys({r.mRID : r \in rows}))]

(***************************************************************************)
(* Inputs: the assessed-element profile.                                   *)
(* A row of type_tableview("AssessedElement"): a cell is a string, or NaN  *)
(* when the element lacks the attribute; the view has a column only for    *)
(* an attribute that at least one element carries.                         *)
(***************************************************************************)
ELERING == "10X1001A1001A39W"

AEBase ==
    [mRID |-> "AE", name |-> "LINE_1", description |-> "line", ConductingEquipment |-> "E1",
     AssessedSystemOperator |-> "10X-TSO-A", normalEnabled |-> "true", inBaseCase |-> "true",
     SecuredForRegion |-> "R1", ScannedForRegion |-> NaN]

AETemplates ==
    { AEBase,
      [AEBase EXCEPT !.ConductingEquipment = "E2", !.name = "LINE_2"],
      [AEBase EXCEPT !.ConductingEquipment = "EX"],
      [AEBase EXCEPT !.ConductingEquipment = "EB"],
      [AEBase EXCEPT !.normalEnabled = "false"],
      [AEBase EXCEPT !.normalEnabled = NaN],
      [AEBase EXCEPT !.normalEnabled = "True"],
      [AEBase EXCEPT !.inBaseCase = "false"],
      [AEBase EXCEPT !.inBaseCase = "TRUE"],
      [AEBase EXCEPT !.inBaseCase = NaN],
      [AEBase EXCEPT !.name = "TR_AT1", !.AssessedSystemOperator = ELERING],
      [AEBase EXCEPT !.name = "BAT_1", !.AssessedSystemOperator = ELERING,
                     !.ConductingEquipment = "E2"],
      [AEBase EXCEPT !.description = NaN],
      [AEBase EXCEPT !.SecuredForRegion = NaN, !.ScannedForRegion = "R2"] }

AEIds == <<"AE1", "AE2", "AE3">>

\* the tables of 1 .. n assessed elements; the mRID of a row is given by its position
AETables(n) ==
    UNION { { [i \in 1..k |-> [f[i] EXCEPT !.mRID = AEIds[i]]] : f \in [1..k -> AETemplates] }
            : k \in 1..n }

\* substring tests on the names of the model
ContainsUnderscoreAT(name) == name \in {"TR_AT1"}
ContainsAT(name) == name \in {"TR_AT1", "BAT_1"}
ContainsOperator(operator, sub) == operator = sub

\* str.lower()
Lower(s) ==
    CASE s \in {"true", "True", "TRUE"} -> "true"
      [] s \in {"false", "False", "FALSE"} -> "false"
      [] OTHER -> s

\* 'col' in table.columns
HasColumn(table, col) == \E i \in DOMAIN table : table[i][col] # NaN
\* row.get(col, default) of a row of table.to_dict('records')
RowGet(table, row, col, default) == IF HasColumn(table, col) THEN row[col] ELSE default

\* bool(row.get(col, False)): a cell of the view is a non-empty string or the float nan,
\* and both are truthy
PyBool(table, row, col) == IF HasColumn(table, col) THEN row[col] # "" ELSE FALSE

(***************************************************************************)
(* process_cnecs                                                           *)
(***************************************************************************)
\* model_copy(update={"instant": "preventive", "id": f"{mRID}-preventive"})
PreventiveCopy(cnec) ==
    [cnec EXCEPT !.instant = "preventive", !.id = <<cnec.id[1], "-preventive">>]

\* the curative copy without the contingencyId update
CurativeCopy_no_contingency(cnec, contingency) ==
    [cnec EXCEPT !.instant = "curative", !.id = <<cnec.id[1], "-curative">>]

\* model_copy(update={"contingencyId": contingency.id, "instant": "curative", "id": f"{mRID}-curative"})
CurativeCopy(cnec, contingency) ==
    [cnec EXCEPT !.contingencyId = contingency.id, !.instant = "curative",
                 !.id = <<cnec.id[1], "-curative">>]

\* the FlowCnecs of one assessed element without the loop over the contingencies
CnecsOfElement_preventive_only(cnec, in_base_case, contingencies) ==
    IF in_base_case THEN <<PreventiveCopy(cnec)>> ELSE <<>>

\* the FlowCnecs one assessed element adds: the preventive one if in base case, then one
\* curative per contingency of the document
CnecsOfElement(cnec, in_base_case, contingencies) ==
    (IF in_base_case THEN <<PreventiveCopy(cnec)>> ELSE <<>>)
    \o [i \in 1..Len(contingencies) |-> CurativeCopy(cnec, contingencies[i])]

\* the exception one assessed element raises, "none" when it raises none
CnecException(table, ae) ==
    IF RowGet(table, ae, "inBaseCase", "false") = NaN THEN "AttributeError: lower"
    ELSE IF ~HasColumn(table, "description") THEN "KeyError: description"
    ELSE IF ae.description = NaN THEN "ValidationError: description"
    ELSE "none"

\* the rows of the table whose equipment is in the network, in table order
ExistingElements(table, ids) ==
    SelectSeq(table, LAMBDA ae : ae.ConductingEquipment \in ids)

\* the element is skipped by the normalEnabled test
Excluded(table, ae) == RowGet(table, ae, "normalEnabled", "false") = "false"

RECURSIVE CnecLoop(_, _, _, _)
CnecLoop(table, rows, c, i) ==
    IF i > Len(rows) THEN [crac |-> c, exc |-> "none"]
    ELSE LET ae == rows[i]
         IN  IF Excluded(table, ae) THEN CnecLoop(table, rows, c, i + 1)
             ELSE IF CnecException(table, ae) # "none"
                  THEN [crac |-> c, exc |-> CnecException(table, ae)]
             ELSE LET in_base_case == Lower(RowGet(table, ae, "inBaseCase", "false")) = "true"
                      secured == PyBool(table, ae, "SecuredForRegion")
                      scanned == PyBool(table, ae, "ScannedForRegion")
                      cnec == FlowCnec(<<ae.mRID, "">>, ae.name, ae.description,
                                       ae.ConductingEquipment, ae.AssessedSystemOperator,
                                       <<ThresholdDefault>>, secured, scanned)
                  IN  CnecLoop(table, rows,
                               [c EXCEPT !.flowCnecs =
                                    c.flowCnecs \o CnecsOfElement(cnec, in_base_case, c.contingencies)],
                               i + 1)

process_cnecs(c, d, net) ==
    CnecLoop(d.assessed, ExistingElements(d.assessed, net.ID), c, 1)

(***************************************************************************)
(* Inputs: the network model.                                              *)
(* An OperationalLimit of the network: its kind (the suffix of             *)
(* OperationalLimitType.limitType), the quantity it limits with its value, *)
(* the ConductingEquipment of the Terminal its OperationalLimitSet refers  *)
(* to (NaN: the set refers to no Terminal), OperationalLimitSet.Equipment  *)
(* (NaN: not given) and SvVoltage.v of the terminal's topological node     *)
(* (nan: no SvVoltage).                                                    *)
(***************************************************************************)
Quantities == {"CurrentLimit", "ActivePowerLimit", "ApparentPowerLimit"}

OperationalLimit(id, e, kind, qty, value, v) ==
    [id |-> id, terminalEquipment |-> e, setEquipment |-> NaN, kind |-> kind,
     qty |-> qty, value |-> value, v |-> Num(v)]

LimitCatalog ==
    { OperationalLimit("L01", "E1", "patl", "CurrentLimit", 10000, 3300),
      OperationalLimit("L02", "E1", "patl", "CurrentLimit", 8000, 4000),
      OperationalLimit("L03", "E1", "tatl", "CurrentLimit", 8000, 3350),
      OperationalLimit("L04", "E1", "patl", "ApparentPowerLimit", 5000, 4000),
      OperationalLimit("L05", "E1", "patl", "ActivePowerLimit", 3000, 3300),
      OperationalLimit("L06", "E1", "tatl", "ActivePowerLimit", 4000, 3300),
      OperationalLimit("L07", "E1", "patl", "CurrentLimit", 0, 3300),
      OperationalLimit("L08", "E1", "tatl", "ApparentPowerLimit", 3333, 3300),
      OperationalLimit("L09", "E2", "patl", "CurrentLimit", 10000, 3300),
      OperationalLimit("L10", "E2", "patl", "ApparentPowerLimit", 5000, 4000),
      OperationalLimit("L11", "E2", "patl", "ActivePowerLimit", 3000, 3300),
      OperationalLimit("L12", "E1", "patl", "ApparentPowerLimit", 0, 3300) }

\* the non-empty sets of at most n limits
LimitSets(n) == {S \in SUBSET LimitCatalog : S # {} /\ Cardinality(S) <= n}

\* the objects of the network model with the instance (file) they come from; EB belongs
\* to the boundary set
NetworkObjects ==
    { [ID |-> "E1", boundary |-> FALSE], [ID |-> "E2", boundary |-> FALSE],
      [ID |-> "E4", boundary |-> FALSE], [ID |-> "E5", boundary |-> FALSE],
      [ID |-> "E6", boundary |-> FALSE], [ID |-> "EB", boundary |-> TRUE] }

\* CracBuilder.__init__: the boundary set is excluded from the network
CracBuilder(objects, lims) ==
    [ID |-> {o.ID : o \in {x \in objects : ~x.boundary}}, limits |-> lims]

(***************************************************************************)
(* get_limits                                                              *)
(***************************************************************************)
\* sqrt(3) * I * V / 1000 rounded to one decimal, I and V in tenths, sqrt(3) taken as 1.732
SynthesizedMW(i, v) ==
    LET x == i * v
    IN  RoundHalfEven((x \div 10000) * 1732 + ((x % 10000) * 1732) \div 10000, 1000)

\* the columns of the limits table: a quantity has a column when some OperationalLimit
\* carries it; ActivePowerLimit.value is always added
LimitColumns(net) == {r.qty : r \in net.limits} \cup {"ActivePowerLimit"}

\* ID_Equipment: Terminal.ConductingEquipment, else OperationalLimitSet.Equipment
IDEquipment(r) == IF r.terminalEquipment # NaN THEN r.terminalEquipment ELSE r.setEquipment

LimitRow(net, r) ==
    LET cur == IF r.qty = "CurrentLimit" THEN Num(r.value) ELSE NaNf
        act == IF r.qty = "ActivePowerLimit" THEN Num(r.value) ELSE NaNf
    IN  [id |-> r.id, ID_Equipment |-> IDEquipment(r), kind |-> r.kind,
         CurrentLimit |-> cur,
         ActivePowerLimit |->
             IF act.tag = "nan" /\ "CurrentLimit" \in LimitColumns(net)
                /\ cur.tag = "num" /\ r.v.tag = "num"
             THEN Num(SynthesizedMW(cur.n, r.v.n)) ELSE act,
         ApparentPowerLimit |-> IF r.qty = "ApparentPowerLimit" THEN Num(r.value) ELSE NaNf,
         v |-> r.v]

\* the Terminal and SvVoltage merges are inner joins: a limit whose set has no Terminal, or
\* whose node has no SvVoltage, has no row
JoinedLimits(net) == {r \in net.limits : r.terminalEquipment # NaN /\ r.v.tag = "num"}

NoLimits == [loaded |-> FALSE, columns |-> {}, rows |-> {}]

get_limits(net) ==
    [loaded |-> TRUE, columns |-> LimitColumns(net),
     rows |-> {LimitRow(net, r) : r \in JoinedLimits(net)}]

(***************************************************************************)
(* update_limits_from_network                                              *)
(***************************************************************************)
\* limits[limitType.str.endswith("." + kind)]
RowsOfKind(lim, kind) == {r \in lim.rows : r.kind = kind}

\* the groups of groupby("ID_Equipment"): a row without equipment is in no group
GroupIds(rows) == {r.ID_Equipment : r \in rows} \ {NaN}

Numbers(rows, col) == {r[col].n : r \in {x \in rows : x[col].tag = "num"}}

MinOf(S) == CHOOSE m \in S : \A x \in S : m <= x
MaxOf(S) == CHOOSE m \in S : \A x \in S : m >= x

RECURSIVE SumOf(_, _)
SumOf(rows, col) ==
    IF rows = {} THEN 0
    ELSE LET r == CHOOSE x \in rows : TRUE
         IN  r[col].n + SumOf(rows \ {r}, col)

\* groupby("ID_Equipment")[col].min().to_dict(): every group has an entry, nan when no
\* row of the group has a value
GroupMin(rows, col) ==
    [e \in GroupIds(rows) |->
        LET S == Numbers({r \in rows : r.ID_Equipment = e}, col)
        IN  IF S = {} THEN NaNf ELSE Num(MinOf(S))]

\* groupby("ID_Equipment")[col].max().round(1).to_dict()
GroupMax(rows, col) ==
    [e \in GroupIds(rows) |->
        LET S == Numbers({r \in rows : r.ID_Equipment = e}, col)
        IN  IF S = {} THEN NaNf ELSE Num(MaxOf(S))]

\* groupby("ID_Equipment")[col].mean().round(1).to_dict()
GroupMean(rows, col) ==
    [e \in GroupIds(rows) |->
        LET G == {r \in rows : r.ID_Equipment = e /\ r[col].tag = "num"}
        IN  IF G = {} THEN NaNf ELSE Num(RoundHalfEven(SumOf(G, col), Cardinality(G)))]

EmptyDict == [e \in {} |-> None]

\* the dictionary of one quantity, {} when the code does not fill it
LimitDict(lim, kind, col) ==
    IF col \in lim.columns THEN GroupMin(RowsOfKind(lim, kind), col) ELSE EmptyDict

\* dict.get(key)
DictGet(dict, key) == IF key \in DOMAIN dict THEN dict[key] ELSE None

_get_limit_fallback_to_patl(instance, primary, fallback) ==
    LET value == DictGet(primary, instance.networkElementId)
        fallback_value == DictGet(fallback, instance.networkElementId)
    IN  IF value.tag = "none" /\ fallback_value.tag # "none" THEN fallback_value ELSE value

\* round(limit * 0.9, 1)
ApparentToActive(limit) ==
    IF limit.tag = "num" THEN Num(RoundHalfEven(limit.n * 9, 10)) ELSE limit

\* the kind of limit the instant selects
KindOfInstant(instant) == IF instant = "preventive" THEN "patl" ELSE "tatl"

\* one probe of the if / elif chain
Probe(lim, m, col) ==
    _get_limit_fallback_to_patl(m, LimitDict(lim, KindOfInstant(m.instant), col),
                                LimitDict(lim, "patl", col))

NoLimit == [found |-> FALSE, unit |-> "none", limit |-> None]
Limit(unit, limit) == [found |-> TRUE, unit |-> unit, limit |-> limit]

\* the chain with the active-power limit probed before the current limit
SelectLimit_active_power_first(lim, m) ==
    IF Truthy(Probe(lim, m, "ActivePowerLimit"))
    THEN Limit("megawatt", Probe(lim, m, "ActivePowerLimit"))
    ELSE IF Truthy(Probe(lim, m, "CurrentLimit"))
    THEN Limit("ampere", Probe(lim, m, "CurrentLimit"))
    ELSE IF Truthy(Probe(lim, m, "ApparentPowerLimit"))
    THEN Limit("megawatt", ApparentToActive(Probe(lim, m, "ApparentPowerLimit")))
    ELSE NoLimit

\* if limit := current ... elif limit := active power ... elif limit := apparent power
SelectLimit(lim, m) ==
    IF Truthy(Probe(lim, m, "CurrentLimit"))
    THEN Limit("ampere", Probe(lim, m, "CurrentLimit"))
    ELSE IF Truthy(Probe(lim, m, "ActivePowerLimit"))
    THEN Limit("megawatt", Probe(lim, m, "ActivePowerLimit"))
    ELSE IF Truthy(Probe(lim, m, "ApparentPowerLimit"))
    THEN Limit("megawatt", ApparentToActive(Probe(lim, m, "ApparentPowerLimit")))
    ELSE NoLimit

UpdateNominalV(lim, m) ==
    LET patl == RowsOfKind(lim, "patl")
        operational_voltage == DictGet(GroupMean(patl, "v"), m.networkElementId)
    IN  IF Truthy(operational_voltage)
        THEN IF ContainsUnderscoreAT(m.name)
             THEN [m EXCEPT !.nominalV = <<DictGet(GroupMax(patl, "v"), m.networkElementId)>>]
             ELSE [m EXCEPT !.nominalV = <<operational_voltage>>]
        ELSE m

\* thresholds = [Threshold(max=limit, min=limit * -1, side=1, unit=unit)], or unchanged
UpdateThresholds(lim, m) ==
    LET sel == SelectLimit(lim, m)
    IN  IF sel.found
        THEN [m EXCEPT !.thresholds = <<Threshold(sel.unit, Negate(sel.limit), sel.limit, 1)>>]
        ELSE m

UpdateCnec(lim, m) == UpdateThresholds(lim, UpdateNominalV(lim, m))

\* patl_limits["ApparentPowerLimit.value"] is read whenever ActivePowerLimit.value is a
\* column, which get_limits guarantees: without the apparent-power column it is a KeyError
update_limits_from_network(c, lim) ==
    IF "ApparentPowerLimit" \notin lim.columns
    THEN [crac |-> c, exc |-> "KeyError: ApparentPowerLimit.value"]
    ELSE [crac |-> [c EXCEPT !.flowCnecs =
                        [i \in 1..Len(c.flowCnecs) |-> UpdateCnec(lim, c.flowCnecs[i])]],
          exc |-> "none"]

(***************************************************************************)
(* perform_cnec_consistency_check                                          *)
(***************************************************************************)
\* any(th.min == 0 and th.max == 0 for th in thresholds)
Removed(cnec) ==
    \E i \in DOMAIN cnec.thresholds :
        EqZero(cnec.thresholds[i].min) /\ EqZero(cnec.thresholds[i].max)

\* the check with its branches swapped: the flagged FlowCnecs are the ones kept
perform_cnec_consistency_check_swapped(c) ==
    [c EXCEPT !.flowCnecs = SelectSeq(c.flowCnecs, Removed)]

perform_cnec_consistency_check(c) ==
    [c EXCEPT !.flowCnecs = SelectSeq(c.flowCnecs, LAMBDA cnec : ~Removed(cnec))]

(***************************************************************************)
(* Inputs: the remedial-action profile.                                    *)
(* A GridStateAlterationRemedialAction with its GridStateAlterations, each *)
(* with its StaticPropertyRanges (the suffix of RangeConstraint.direction  *)
(* and RangeConstraint.normalValue).                                       *)
(***************************************************************************)
StaticPropertyRange(direction, normalValue) ==
    [direction |-> direction, normalValue |-> normalValue]

\* Equipment is TopologyAction.Equipment or ShuntCompensatorModification.ShuntCompensator
GridStateAlteration(type, equipment, ranges) ==
    [mRID |-> "GA", Type |-> type, Equipment |-> equipment, ranges |-> ranges]

RangeChoices ==
    { <<>>,
      <<StaticPropertyRange("none", 0)>>,
      <<StaticPropertyRange("none", 1)>>,
      <<StaticPropertyRange("up", 1)>>,
      <<StaticPropertyRange("upAndDown", 0)>>,
      <<StaticPropertyRange("upAndDown", 1)>>,
      <<StaticPropertyRange("none", 1), StaticPropertyRange("up", 0)>> }

AlterationTemplates ==
    {GridStateAlteration("TopologyAction", "E4", r) : r \in RangeChoices}
    \cup {GridStateAlteration("TopologyAction", "E5", r) :
            r \in {<<StaticPropertyRange("upAndDown", 1)>>, <<StaticPropertyRange("none", 0)>>}}
    \cup {GridStateAlteration("ShuntCompensatorModification", "E6", r) :
            r \in {<<>>, <<StaticPropertyRange("none", 2)>>,
                   <<StaticPropertyRange("upAndDown", 1)>>, <<StaticPropertyRange("up", 1)>>}}
    \cup {GridStateAlteration("RotatingMachineAction", "E4", <<StaticPropertyRange("none", 1)>>)}
    \cup {GridStateAlteration("TopologyAction", "EX", r) :
            r \in {<<StaticPropertyRange("upAndDown", 1)>>, <<StaticPropertyRange("none", 1)>>}}

AlterationIds == <<"GA1", "GA2", "GA3">>

RemedialAction(mRID, alterations) ==
    [mRID |-> mRID, name |-> mRID, operator |-> "10X-TSO-A", kind |-> "curative",
     alterations |-> alterations]

\* the remedial actions RA1 with 1 .. n alterations
RemedialActions(n) ==
    UNION { { RemedialAction("RA1", [i \in 1..k |-> [f[i] EXCEPT !.mRID = AlterationIds[i]]]) :
                f \in [1..k -> AlterationTemplates] } : k \in 1..n }

RA0 == RemedialAction("RA0", <<[GridStateAlteration("ShuntCompensatorModification", "E6",
                                    <<StaticPropertyRange("none", 1)>>) EXCEPT !.mRID = "GA8"]>>)
RA2 == RemedialAction("RA2", <<[GridStateAlteration("TopologyAction", "E5",
                                    <<StaticPropertyRange("none", 1)>>) EXCEPT !.mRID = "GA9"]>>)

(***************************************************************************)
(* crac/models.py: the actions                                             *)
(***************************************************************************)
\* TerminalsAction.map_to_string_open_close
map_to_string_open_close(value) == IF value # 0 THEN "open" ELSE "close"

TerminalsAction(networkElementId, normalValue) ==
    [cls |-> "TerminalsAction", networkElementId |-> networkElementId,
     actionType |-> map_to_string_open_close(normalValue)]

ShuntCompensatorPositionAction(networkElementId, normalValue) ==
    [cls |-> "ShuntCompensatorPositionAction", networkElementId |-> networkElementId,
     sectionCount |-> normalValue]

\* NetworkAction(...): the class declares no activationCost field and pydantic ignores a
\* keyword that is no field, so the value passed is dropped.  empty_list_to_none turns an
\* empty action list into None, written <<>> here as well.
NetworkAction(id, name, operator, activationCost, onInstantUsageRules, terminalsConnectionActions, shuntCompensatorPositionActions) ==
    [id |-> id, name |-> name, operator |-> operator,
     onInstantUsageRules |-> onInstantUsageRules,
     terminalsConnectionActions |-> terminalsConnectionActions,
     shuntCompensatorPositionActions |-> shuntCompensatorPositionActions]

(***************************************************************************)
(* process_remedial_actions                                                *)
(***************************************************************************)
_get_opposite_terminal_connection_value(value) == IF value = "close" THEN "open" ELSE "close"

RECURSIVE DirectionsFrom(_, _)
DirectionsFrom(alterations, i) ==
    IF i > Len(alterations) THEN <<>>
    ELSE [j \in 1..Len(alterations[i].ranges) |-> alterations[i].ranges[j].direction]
         \o DirectionsFrom(alterations, i + 1)

\* the direction suffixes of the property ranges of the action's alterations
Directions(ra) == DirectionsFrom(ra.alterations, 1)

\* the test of the directions left out
DifferentDirections_never(directions) == FALSE

\* len(directions.unique()) > 1
DifferentDirections(directions) == Cardinality(Elements(directions)) > 1

SupportedTypes == {"TopologyAction", "ShuntCompensatorModification"}

ReferencedAction(action, normal_value) ==
    IF action.Type = "TopologyAction"
    THEN TerminalsAction(action.Equipment, normal_value)
    ELSE ShuntCompensatorPositionAction(action.Equipment, normal_value)

\* the loop over the alterations of one remedial action
RECURSIVE AlterationLoop(_, _, _, _, _, _)
AlterationLoop(ra, directions, ids, i, actions, virtual_cost) ==
    IF i > Len(ra.alterations)
    THEN [actions |-> actions, virtual_cost |-> virtual_cost, exc |-> "none"]
    ELSE LET action == ra.alterations[i]
             normal_value == IF action.ranges = <<>> THEN 0 ELSE action.ranges[1].normalValue
         IN  IF action.Type \notin SupportedTypes
             THEN AlterationLoop(ra, directions, ids, i + 1, actions, virtual_cost)
             ELSE IF action.Type = "TopologyAction" /\ directions = <<>>
             THEN [actions |-> actions, virtual_cost |-> virtual_cost, exc |-> "IndexError: iloc"]
             ELSE LET cost == IF action.Type = "TopologyAction" /\ directions[1] \in {"none", "up"}
                              THEN 50 ELSE virtual_cost
                  IN  IF action.Equipment \notin ids
                      THEN AlterationLoop(ra, directions, ids, i + 1, actions, cost)
                      ELSE AlterationLoop(ra, directions, ids, i + 1,
                                          Append(actions, ReferencedAction(action, normal_value)),
                                          cost)

IsTerminalsAction(x) == x.cls = "TerminalsAction"

\* [x.model_copy(update={"actionType": opposite(x.actionType)}) for x in actions]
OppositeTerminalActions(actions) ==
    [i \in 1..Len(actions) |->
        [actions[i] EXCEPT !.actionType = _get_opposite_terminal_connection_value(@)]]

\* the NetworkActions one remedial action adds, or the exception it raises
RemedialActionResult(ra, ids) ==
    LET directions == Directions(ra)
        loop == AlterationLoop(ra, directions, ids, 1, <<>>, 0)
        network_action ==
            NetworkAction(<<ra.mRID, "">>, ra.name, ra.operator, loop.virtual_cost,
                          <<[usageMethod |-> "available", instant |-> ra.kind]>>,
                          SelectSeq(loop.actions, IsTerminalsAction),
                          SelectSeq(loop.actions, LAMBDA x : ~IsTerminalsAction(x)))
    IN  IF DifferentDirections(directions) THEN [added |-> <<>>, exc |-> "none"]
        ELSE IF loop.exc # "none" THEN [added |-> <<>>, exc |-> loop.exc]
        ELSE IF loop.actions = <<>> THEN [added |-> <<>>, exc |-> "none"]
        ELSE IF directions = <<>> THEN [added |-> <<network_action>>, exc |-> "ValueError: item"]
        ELSE IF directions[1] = "upAndDown" /\ network_action.terminalsConnectionActions # <<>>
        THEN IF \E i \in DOMAIN loop.actions : ~IsTerminalsAction(loop.actions[i])
             THEN [added |-> <<network_action>>, exc |-> "AttributeError: actionType"]
             ELSE [added |-> <<network_action,
                                [network_action EXCEPT
                                    !.id = <<ra.mRID, "-opposite-direction">>,
                                    !.terminalsConnectionActions =
                                        OppositeTerminalActions(loop.actions)]>>,
                   exc |-> "none"]
        ELSE [added |-> <<network_action>>, exc |-> "none"]

RemedialActionOf(S, mrid) == CHOOSE ra \in S : ra.mRID = mrid

RECURSIVE RemedialLoop(_, _, _, _)
RemedialLoop(S, keys, ids, c) ==
    IF keys = <<>> THEN [crac |-> c, exc |-> "none"]
    ELSE LET r == RemedialActionResult(RemedialActionOf(S, Head(keys)), ids)
             next == [c EXCEPT !.networkActions = c.networkActions \o r.added]
         IN  IF r.exc # "none" THEN [crac |-> next, exc |-> r.exc]
             ELSE RemedialLoop(S, Tail(keys), ids, next)

process_remedial_actions(c, d, net) ==
    RemedialLoop(d.remedial, GroupKeys({ra.mRID : ra \in d.remedial}), net.ID, c)

(***************************************************************************)
(* CracBuilder.crac: model_dump(exclude_none=True, by_alias=True)          *)
(***************************************************************************)
\* the serializer with another prefix
serialize_with_prefix_dash(value) == <<"-", value>>

\* f"_{value}"
serialize_with_prefix(value) == <<"_", value>>

\* a field that is dropped from the dump when its value is None
Optional(present, field) == IF present THEN field ELSE <<>>

DumpContingency(c) ==
    [id |-> c.id, name |-> c.name,
     networkElementsIds |->
        [i \in 1..Len(c.networkElementsIds) |-> serialize_with_prefix(c.networkElementsIds[i])]]

\* description is declared with exclude=True
DumpFlowCnec(m) ==
    [id |-> m.id, name |-> m.name,
     networkElementId |-> serialize_with_prefix(m.networkElementId),
     operator |-> m.operator, thresholds |-> m.thresholds, instant |-> m.instant,
     optimized |-> m.optimized, monitored |-> m.monitored, nominalV |-> m.nominalV]
    @@ Optional(m.contingencyId # NoneStr, [contingencyId |-> m.contingencyId])

\* cls names the class of the object and is no field of it
DumpAction(x) ==
    IF x.cls = "TerminalsAction"
    THEN [networkElementId |-> serialize_with_prefix(x.networkElementId),
          actionType |-> x.actionType]
    ELSE [networkElementId |-> serialize_with_prefix(x.networkElementId),
          sectionCount |-> x.sectionCount]

DumpNetworkAction(na) ==
    [id |-> na.id, name |-> na.name, operator |-> na.operator,
     onInstantUsageRules |-> na.onInstantUsageRules]
    @@ Optional(na.terminalsConnectionActions # <<>>,
                [terminalsConnectionActions |->
                    [i \in 1..Len(na.terminalsConnectionActions) |->
                        DumpAction(na.terminalsConnectionActions[i])]])
    @@ Optional(na.shuntCompensatorPositionActions # <<>>,
                [shuntCompensatorPositionActions |->
                    [i \in 1..Len(na.shuntCompensatorPositionActions) |->
                        DumpAction(na.shuntCompensatorPositionActions[i])]])

\* Crac.exclude_3w_transformer_from_flow_cnecs
exclude_3w_transformer_from_flow_cnecs(values) ==
    SelectSeq(values, LAMBDA cnec :
        ~(ContainsAT(cnec.name) /\ ContainsOperator(cnec.operator, ELERING)))

NoDocument == [returned |-> FALSE, contingencies |-> <<>>, flowCnecs |-> <<>>,
               networkActions |-> <<>>]

\* the crac property of a built document
Dump(c) ==
    LET kept == exclude_3w_transformer_from_flow_cnecs(c.flowCnecs)
    IN  [returned |-> TRUE,
         contingencies |-> [i \in 1..Len(c.contingencies) |-> DumpContingency(c.contingencies[i])],
         flowCnecs |-> [i \in 1..Len(kept) |-> DumpFlowCnec(kept[i])],
         networkActions |->
            [i \in 1..Len(c.networkActions) |-> DumpNetworkAction(c.networkActions[i])]]

(***************************************************************************)
(* build_crac as a function of its inputs: the exception it raises and the *)
(* document it returns.                                                    *)
(***************************************************************************)
build_crac(d, net, contingency_ids) ==
    LET c1 == process_contingencies(Crac, d, contingency_ids)
        r2 == process_cnecs(c1, d, net)
        r3 == process_remedial_actions(r2.crac, d, net)
        r4 == update_limits_from_network(r3.crac, get_limits(net))
    IN  IF r2.exc # "none" THEN [exc |-> r2.exc, doc |-> NoDocument]
        ELSE IF r3.exc # "none" THEN [exc |-> r3.exc, doc |-> NoDocument]
        ELSE IF r4.exc # "none" THEN [exc |-> r4.exc, doc |-> NoDocument]
        ELSE [exc |-> "none", doc |-> Dump(perform_cnec_consistency_check(r4.crac))]

(***************************************************************************)
(* The state after CracBuilder(data, network).                             *)
(***************************************************************************)
Profiles(contingencies, assessed, remedial) ==
    [contingencies |-> contingencies, assessed |-> assessed, remedial |-> remedial]

StdContingencies == {c \in ContingencyCatalog : c.mRID \in {"CO1", "CO2"}}
StdAssessed == <<[AEBase EXCEPT !.mRID = "AE1"]>>
StdRemedial == {RA2}
StdLimits == {r \in LimitCatalog : r.id \in {"L01", "L03", "L10"}}

\* assessed elements vary
InputsAssessed ==
    { [data |-> Profiles(StdContingencies, t, StdRemedial), limits |-> l, args |-> a] :
        t \in AETables(MaxAE),
        l \in {StdLimits},
        a \in {NoIds} }

\* operational limits vary
InputsLimits ==
    { [data |-> Profiles(StdContingencies, t, StdRemedial), limits |-> l, args |-> a] :
        t \in { StdAssessed,
                <<[AEBase EXCEPT !.mRID = "AE1", !.inBaseCase = "false"],
                  [AEBase EXCEPT !.mRID = "AE2", !.name = "TR_AT1"]>> },
        l \in LimitSets(MaxLimits),
        a \in {Ids({"CO1"}), Ids({"COX"})} }

\* contingencies and the contingency_ids argument vary
InputsContingencies ==
    { [data |-> Profiles(cs, t, StdRemedial), limits |-> StdLimits, args |-> a] :
        cs \in SUBSET ContingencyCatalog,
        t \in { StdAssessed, <<[AEBase EXCEPT !.mRID = "AE1", !.inBaseCase = "false"]>> },
        a \in ContingencyArgs }

\* remedial actions vary
InputsRemedial ==
    { [data |-> Profiles(StdContingencies, StdAssessed, rs), limits |-> StdLimits,
       args |-> Ids({"CO1"})] :
        rs \in {{RA0, ra, RA2} : ra \in RemedialActions(MaxAlterations)} }

Inputs == InputsAssessed \cup InputsLimits \cup InputsContingencies \cup InputsRemedial

\* no message is being handled
NoMessage == [received |-> FALSE]
HandlerOff == message = NoMessage /\ hpc = "off" /\ events = <<>> /\ todo = <<>> /\ raised = "none"

\* no request is made to the object storage
NoRequest == [requested |-> FALSE]
StorageOff == storage = NoRequest /\ files_downloaded = <<>>

\* no settings manager is constructed
NoSettings == [constructed |-> FALSE]
SettingsOff == heap = <<>> /\ settings = NoSettings

\* no S3Minio client is constructed
NoClient == [constructed |-> FALSE]
S3Off == s3 = NoClient /\ threads = <<>>

\* no CIMFlattener is constructed
NoFlattener == [constructed |-> FALSE]
FlattenerOff == flattener = NoFlattener

\* no bulk call is made
NoBulk == [called |-> FALSE]
ElasticOff == elastic = NoBulk

ServicesOff == SettingsOff /\ S3Off /\ FlattenerOff /\ ElasticOff

\* the builder, the handler and the object storage are not in use
CoreOff ==
    /\ data = Profiles({}, <<>>, {})
    /\ network = CracBuilder(NetworkObjects, {})
    /\ args = NoIds
    /\ limits = NoLimits
    /\ crac = NotBuilt
    /\ pc = "off"
    /\ exc = "none"
    /\ result = NoDocument
    /\ history = <<>>
    /\ HandlerOff
    /\ StorageOff


Init ==
    \E in \in Inputs :
        /\ data = in.data
        /\ network = CracBuilder(NetworkObjects, in.limits)
        /\ args = in.args
        /\ limits = NoLimits
        /\ crac = NotBuilt
        /\ pc = "idle"
        /\ exc = "none"
        /\ result = NoDocument
        /\ history = <<>>
        /\ HandlerOff
        /\ StorageOff
        /\ ServicesOff

(***************************************************************************)
(* The steps of HandlerVirtualOperator's use of the builder.               *)
(***************************************************************************)
\* crac_service.get_limits(), called by the handler before the first build
GetLimits ==
    /\ pc = "idle"
    /\ ~limits.loaded
    /\ limits' = get_limits(network)
    /\ UNCHANGED <<data, network, crac, args, pc, exc, result, history>>
    /\ UNCHANGED <<handlerVars, storageVars, serviceVars>>

\* build_crac without the new Crac object when the builder already has one
BuildCrac_keeps_crac ==
    /\ pc = "idle"
    /\ crac' = IF crac.built THEN crac ELSE Built(Crac)
    /\ pc' = "process_contingencies"
    /\ UNCHANGED <<data, network, limits, args, exc, result, history>>
    /\ UNCHANGED <<handlerVars, storageVars, serviceVars>>

\* build_crac(contingency_ids): self._crac = models.Crac()
BuildCrac ==
    /\ pc = "idle"
    /\ crac' = Built(Crac)
    /\ pc' = "process_contingencies"
    /\ UNCHANGED <<data, network, limits, args, exc, result, history>>
    /\ UNCHANGED <<handlerVars, storageVars, serviceVars>>

\* a step that returns r = [crac, exc]: it goes on to the next step or raises
Step(r, next) ==
    /\ crac' = r.crac
    /\ exc' = r.exc
    /\ pc' = IF r.exc = "none" THEN next ELSE "raised"

ProcessContingencies ==
    /\ pc = "process_contingencies"
    /\ Step([crac |-> process_contingencies(crac, data, args), exc |-> "none"], "process_cnecs")
    /\ UNCHANGED <<data, network, limits, args, result, history>>
    /\ UNCHANGED <<handlerVars, storageVars, serviceVars>>

ProcessCnecs ==
    /\ pc = "process_cnecs"
    /\ Step(process_cnecs(crac, data, network), "process_remedial_actions")
    /\ UNCHANGED <<data, network, limits, args, result, history>>
    /\ UNCHANGED <<handlerVars, storageVars, serviceVars>>

ProcessRemedialActions ==
    /\ pc = "process_remedial_actions"
    /\ Step(process_remedial_actions(crac, data, network), "update_limits_from_network")
    /\ UNCHANGED <<data, network, limits, args, result, history>>
    /\ UNCHANGED <<handlerVars, storageVars, serviceVars>>

\* if self.limits is None: self.get_limits()
UpdateLimitsFromNetwork ==
    /\ pc = "update_limits_from_network"
    /\ limits' = IF limits.loaded THEN limits ELSE get_limits(network)
    /\ Step(update_limits_from_network(crac, limits'), "perform_cnec_consistency_check")
    /\ UNCHANGED <<data, network, args, result, history>>
    /\ UNCHANGED <<handlerVars, storageVars, serviceVars>>

PerformCnecConsistencyCheck ==
    /\ pc = "perform_cnec_consistency_check"
    /\ Step([crac |-> perform_cnec_consistency_check(crac), exc |-> "none"], "return")
    /\ UNCHANGED <<data, network, limits, args, result, history>>
    /\ UNCHANGED <<handlerVars, storageVars, serviceVars>>

\* return self.crac
ReturnCrac ==
    /\ pc = "return"
    /\ result' = Dump(crac)
    /\ history' = Append(history, [by |-> "build_crac", args |-> args, doc |-> result'])
    /\ pc' = "done"
    /\ UNCHANGED <<data, network, limits, crac, args, exc>>
    /\ UNCHANGED <<handlerVars, storageVars, serviceVars>>

Next ==
    \/ GetLimits
    \/ BuildCrac
    \/ ProcessContingencies
    \/ ProcessCnecs
    \/ ProcessRemedialActions
    \/ UpdateLimitsFromNetwork
    \/ PerformCnecConsistencyCheck
    \/ ReturnCrac

Spec == Init /\ [][Next]_vars

(***************************************************************************)
(* Several calls on one builder: build_crac again with other arguments, as *)
(* the handler does for each contingency, and builder.crac read again.     *)
(***************************************************************************)
RebuildArgs == {NoIds, Ids({"CO1"}), Ids({"COX"})}

InputsRebuild ==
    { [data |-> Profiles(cs, t, rs), limits |-> StdLimits, args |-> a] :
        cs \in {StdContingencies, ContingencyCatalog},
        t \in { StdAssessed,
                <<[AEBase EXCEPT !.mRID = "AE1", !.inBaseCase = "false"],
                  [AEBase EXCEPT !.mRID = "AE2", !.name = "TR_AT1"]>>,
                <<[AEBase EXCEPT !.mRID = "AE1", !.name = "BAT_1",
                                 !.AssessedSystemOperator = ELERING]>> },
        rs \in { StdRemedial,
                 {RA0, RemedialAction("RA1", <<[GridStateAlteration("TopologyAction", "E4",
                            <<StaticPropertyRange("upAndDown", 1)>>) EXCEPT !.mRID = "GA1"]>>)},
                 {RemedialAction("RA1", <<[GridStateAlteration("TopologyAction", "E4", <<>>)
                                              EXCEPT !.mRID = "GA1"]>>)} },
        a \in RebuildArgs }

InitRebuild ==
    \E in \in InputsRebuild :
        /\ data = in.data
        /\ network = CracBuilder(NetworkObjects, in.limits)
        /\ args = in.args
        /\ limits = NoLimits
        /\ crac = NotBuilt
        /\ pc = "idle"
        /\ exc = "none"
        /\ result = NoDocument
        /\ history = <<>>
        /\ HandlerOff
        /\ StorageOff
        /\ ServicesOff

\* the caller makes the next build_crac call on the same builder, after a call that
\* returned or raised
NextCall ==
    /\ pc \in {"done", "raised"}
    /\ Len(history) < MaxCalls
    /\ args' \in RebuildArgs
    /\ pc' = "idle"
    /\ exc' = "none"
    /\ UNCHANGED <<data, network, limits, crac, result, history>>
    /\ UNCHANGED <<handlerVars, storageVars, serviceVars>>

\* the caller reads builder.crac again: model_dump of the Crac object
ReadCrac ==
    /\ pc = "done"
    /\ Len(history) < MaxCalls
    /\ result' = Dump(crac)
    /\ history' = Append(history, [by |-> "crac", args |-> args, doc |-> result'])
    /\ UNCHANGED <<data, network, limits, crac, args, pc, exc>>
    /\ UNCHANGED <<handlerVars, storageVars, serviceVars>>

NextRebuild ==
    \/ GetLimits
    \/ BuildCrac
    \/ ProcessContingencies
    \/ ProcessCnecs
    \/ ProcessRemedialActions
    \/ UpdateLimitsFromNetwork
    \/ PerformCnecConsistencyCheck
    \/ ReturnCrac
    \/ NextCall
    \/ ReadCrac

SpecRebuild == InitRebuild /\ [][NextRebuild]_vars

(***************************************************************************)
(* get_limits alone, on network models whose limit sets refer to a         *)
(* Terminal, to an Equipment or to both, and whose terminals' nodes have   *)
(* an SvVoltage or none.                                                   *)
(***************************************************************************)
ReferenceCatalog ==
    { OperationalLimit("L01", "E1", "patl", "CurrentLimit", 10000, 3300),
      OperationalLimit("L03", "E1", "tatl", "CurrentLimit", 8000, 3350),
      OperationalLimit("L05", "E1", "patl", "ActivePowerLimit", 3000, 3300),
      [OperationalLimit("L13", NaN, "patl", "CurrentLimit", 9000, 0) EXCEPT !.setEquipment = "E1", !.v = NaNf],
      [OperationalLimit("L14", "E2", "patl", "CurrentLimit", 7000, 0) EXCEPT !.v = NaNf],
      [OperationalLimit("L15", "E2", "tatl", "CurrentLimit", 6000, 3300) EXCEPT !.setEquipment = "E1"],
      [OperationalLimit("L16", NaN, "tatl", "ActivePowerLimit", 2000, 0) EXCEPT !.setEquipment = "E2", !.v = NaNf] }

InitLimits ==
    /\ \E l \in {S \in SUBSET ReferenceCatalog : S # {} /\ Cardinality(S) <= MaxLimits} :
        network = CracBuilder(NetworkObjects, l)
    /\ data = Profiles(StdContingencies, StdAssessed, StdRemedial)
    /\ args = NoIds
    /\ limits = NoLimits
    /\ crac = NotBuilt
    /\ pc = "idle"
    /\ exc = "none"
    /\ result = NoDocument
    /\ history = <<>>
    /\ HandlerOff
    /\ StorageOff
    /\ ServicesOff

NextLimits == GetLimits

SpecLimits == InitLimits /\ [][NextLimits]_vars

(***************************************************************************)
(* HandlerVirtualOperator.handle: one message, from the SAR profile to the *)
(* return of the message.  The key table view of the SAR has one row for   *)
(* each object that carries PowerFlowResult.isViolation, and a column for  *)
(* each attribute some such object carries; a cell of a row that lacks the *)
(* attribute is NaN.                                                       *)
(***************************************************************************)
PowerFlowResult(id, isViolation, valueA, contingency) ==
    [id |-> id, isViolation |-> isViolation, valueA |-> valueA, Contingency |-> contingency]

SarCatalog ==
    { PowerFlowResult("V1", "true", "1200.0", "CO1"),
      PowerFlowResult("V2", "true", NaN, "CO2"),
      PowerFlowResult("V3", "false", "900.0", "CO1"),
      PowerFlowResult("V4", "true", "1500.0", "CO2"),
      PowerFlowResult("V5", "true", "1100.0", NaN),
      PowerFlowResult("V6", "true", NaN, NaN) }

\* the SAR profiles read: at least one object with isViolation, at most MaxRows
SarProfiles == {rows \in SUBSET SarCatalog : rows # {} /\ Cardinality(rows) <= MaxRows}

\* the messages received, with the handler's current_violations_only setting; a header
\* the message lacks is NoneStr
Messages ==
    { [received |-> TRUE, sar |-> rows, content_reference |-> ref, time_horizon |-> th,
       current_violations_only |-> only] :
        rows \in SarProfiles, ref \in {"RMM_1.zip", NoneStr}, th \in {"ID", "1D", NoneStr},
        only \in BOOLEAN }

\* 'col' in violations.columns
InColumns(rows, col) == \E r \in rows : r[col] # NaN

\* the violations kept with every row that is a violation, whatever the setting
Violations_all_violations(rows, current_violations_only) ==
    {r \in rows : r.isViolation = "true"}

\* violations[isViolation == 'true'], and with current_violations_only the rows with a
\* valueA, none when the table has no valueA column
Violations(rows, current_violations_only) ==
    LET violations == {r \in rows : r.isViolation = "true"}
    IN  IF current_violations_only
        THEN IF InColumns(rows, "valueA")
             THEN {r \in violations : r.valueA # NaN}
             ELSE {}
        ELSE violations

\* the order in which groupby gives the keys: sorted
ContingencyOrder == <<"CO1", "CO2", "COX">>

\* the keys of violations.groupby("ContingencyPowerFlowResult.Contingency"): the rows
\* without a contingency are in no group
ContingencyGroups(violations) ==
    SelectSeq(ContingencyOrder, LAMBDA c : \E r \in violations : r.Contingency = c)

Event(op, mrid) == [op |-> op, mrid |-> mrid]

\* the profiles and the model the object storage holds for the message
StoredInputs ==
    { [data |-> Profiles(StdContingencies, t, StdRemedial), limits |-> StdLimits] :
        t \in { StdAssessed,
                <<[AEBase EXCEPT !.mRID = "AE1", !.inBaseCase = "false"],
                  [AEBase EXCEPT !.mRID = "AE2", !.name = "TR_AT1"]>> } }

\* a message arrives at a handler that has no builder yet
InitHandler ==
    /\ message \in Messages
    /\ hpc = "handle"
    /\ events = <<>>
    /\ todo = <<>>
    /\ raised = "none"
    /\ data = Profiles({}, <<>>, {})
    /\ network = CracBuilder(NetworkObjects, {})
    /\ args = NoIds
    /\ limits = NoLimits
    /\ crac = NotBuilt
    /\ pc = "off"
    /\ exc = "none"
    /\ result = NoDocument
    /\ history = <<>>
    /\ StorageOff
    /\ ServicesOff

\* lines 157-171: the violations of the SAR; the message is returned when none is relevant
ScanViolations ==
    /\ hpc = "handle"
    /\ hpc' = IF Violations(message.sar, message.current_violations_only) = {}
              THEN "returned" ELSE "get_input_profiles"
    /\ UNCHANGED <<message, events, todo, raised>>
    /\ UNCHANGED <<builderVars, storageVars, serviceVars>>

\* lines 173-180: input_file_objects = self.get_input_profiles()
GetInputProfiles ==
    /\ hpc = "get_input_profiles"
    /\ events' = Append(events, Event("get_input_profiles", NoneStr))
    /\ hpc' = "get_network_model"
    /\ UNCHANGED <<message, todo, raised>>
    /\ UNCHANGED <<builderVars, storageVars, serviceVars>>

\* lines 182-190: without content_reference an error is logged and the message is returned,
\* otherwise the network model is fetched
GetNetworkModel ==
    /\ hpc = "get_network_model"
    /\ IF message.content_reference = NoneStr
       THEN hpc' = "returned" /\ UNCHANGED events
       ELSE /\ events' = Append(events, Event("get_network_model", NoneStr))
            /\ hpc' = "CracBuilder"
    /\ UNCHANGED <<message, todo, raised>>
    /\ UNCHANGED <<builderVars, storageVars, serviceVars>>

\* lines 209-215: crac_service = CracBuilder(...), crac_service.get_limits(), and the
\* groupby of the violations, a KeyError when the table has no Contingency column
CreateCracService ==
    /\ hpc = "CracBuilder"
    /\ \E in \in StoredInputs :
        /\ data' = in.data
        /\ network' = CracBuilder(NetworkObjects, in.limits)
    /\ limits' = get_limits(network')
    /\ IF InColumns(message.sar, "Contingency")
       THEN /\ todo' = ContingencyGroups(Violations(message.sar, message.current_violations_only))
            /\ hpc' = "groupby"
            /\ raised' = "none"
       ELSE /\ todo' = <<>>
            /\ hpc' = "raised"
            /\ raised' = "KeyError"
    /\ UNCHANGED <<message, events>>
    /\ UNCHANGED <<crac, args, pc, exc, result, history, storageVars, serviceVars>>

\* line 215: the loop takes the next contingency, line 220: build_crac(contingency_ids=[mrid])
\* is called
TakeContingency ==
    /\ hpc = "groupby"
    /\ todo # <<>>
    /\ args' = Ids({Head(todo)})
    /\ pc' = "idle"
    /\ exc' = "none"
    /\ events' = Append(events, Event("build_crac", Head(todo)))
    /\ hpc' = "build_crac"
    /\ UNCHANGED <<message, todo, raised>>
    /\ UNCHANGED <<data, network, limits, crac, result, history, storageVars, serviceVars>>

\* lines 226-231: the CRAC document is uploaded, its name made with the time_horizon header
\* (a KeyError without it); an exception of build_crac is not caught
UploadCrac ==
    /\ hpc = "build_crac"
    /\ pc \in {"done", "raised"}
    /\ IF pc = "raised"
       THEN hpc' = "raised" /\ raised' = exc /\ UNCHANGED events
       ELSE IF message.time_horizon = NoneStr
       THEN hpc' = "raised" /\ raised' = "KeyError" /\ UNCHANGED events
       ELSE /\ events' = Append(events, Event("upload_object", Head(todo)))
            /\ hpc' = "Optimizer"
            /\ UNCHANGED raised
    /\ UNCHANGED <<message, todo>>
    /\ UNCHANGED <<builderVars, storageVars, serviceVars>>

\* line 235: Optimizer(network=, crac=, debug=, parameters_path=): Optimizer.__init__ has
\* no parameter of that name, the call is a TypeError
CreateOptimizer ==
    /\ hpc = "Optimizer"
    /\ hpc' = "raised"
    /\ raised' = "TypeError"
    /\ UNCHANGED <<message, events, todo>>
    /\ UNCHANGED <<builderVars, storageVars, serviceVars>>

\* lines 272-274: the loop is over and the message is returned
ReturnMessage ==
    /\ hpc = "groupby"
    /\ todo = <<>>
    /\ hpc' = "returned"
    /\ UNCHANGED <<message, events, todo, raised>>
    /\ UNCHANGED <<builderVars, storageVars, serviceVars>>

NextHandler ==
    \/ ScanViolations
    \/ GetInputProfiles
    \/ GetNetworkModel
    \/ CreateCracService
    \/ TakeContingency
    \/ BuildCrac
    \/ ProcessContingencies
    \/ ProcessCnecs
    \/ ProcessRemedialActions
    \/ UpdateLimitsFromNetwork
    \/ PerformCnecConsistencyCheck
    \/ ReturnCrac
    \/ UploadCrac
    \/ CreateOptimizer
    \/ ReturnMessage

SpecHandler == InitHandler /\ [][NextHandler]_vars

(***************************************************************************)
(* ObjectStorage.get_latest_input_data: the metadata index holds records   *)
(* with entity, keyword, Model.version, a validity period and the          *)
(* reference of their content; the content of a record is named by its     *)
(* content_reference.  Times are hours.                                    *)
(***************************************************************************)
Metadata(id, entity, keyword, version, startDate, endDate, downloadable) ==
    [id |-> id, entity |-> entity, keyword |-> keyword, version |-> version, startDate |-> startDate, endDate |-> endDate, content_reference |-> <<"content", id>>, downloadable |-> downloadable]

\* the versions of one (entity, keyword) differ: the order sort_values gives to equal
\* versions is not determined
MetadataCatalog ==
    { Metadata("M1", "TSO1", "CO", 1, 0, 10, TRUE),
      Metadata("M2", "TSO1", "CO", 2, 0, 10, TRUE),
      Metadata("M3", "TSO1", "CO", 3, 0, 4, TRUE),
      Metadata("M4", "TSO2", "CO", 1, 5, 10, TRUE),
      Metadata("M5", "TSO1", "AE", 2, 0, 5, FALSE),
      Metadata("M6", "TSO1", "AE", 1, 0, 10, TRUE),
      Metadata("M7", "TSO1", "SAR", 1, 0, 10, TRUE) }

\* the scenario time of the request
ScenarioTime == 5

Requests ==
    { [requested |-> TRUE, returned |-> FALSE, index |-> recs, type_keyword |-> {"CO", "AE", "RA"}, entity |-> e, scenario_timestamp |-> ScenarioTime] :
        recs \in {x \in SUBSET MetadataCatalog : Cardinality(x) <= MaxRecords},
        e \in {NoIds, Ids({"TSO1"})} }

\* self.query(metadata_query, range_query): keyword, entity when given, and the validity
files_metadata(req) ==
    { r \in req.index :
        /\ r.keyword \in req.type_keyword
        /\ (req.entity.given => r.entity \in req.entity.ids)
        /\ r.startDate <= req.scenario_timestamp
        /\ r.endDate >= req.scenario_timestamp }

\* the order in which groupby(["entity", "keyword"]) gives the groups: sorted
GroupOrder ==
    << <<"TSO1", "AE">>, <<"TSO1", "CO">>, <<"TSO1", "RA">>,
       <<"TSO2", "AE">>, <<"TSO2", "CO">>, <<"TSO2", "RA">> >>

GroupOf(records, key) == {r \in records : <<r.entity, r.keyword>> = key}

\* sort_values(by="Model.version", ascending=True) ... first(): the first row of a group
\* is the one with the lowest version
FirstOfGroup(group) == CHOOSE r \in group : \A q \in group : r.version <= q.version

\* lines 141-157: one record for each group, its content appended unless the download
\* raises, which is logged and skipped
get_latest_input_data(req) ==
    LET df == files_metadata(req)
        groups == SelectSeq(GroupOrder, LAMBDA key : GroupOf(df, key) # {})
        records == [i \in DOMAIN groups |-> FirstOfGroup(GroupOf(df, groups[i]))]
        downloaded == SelectSeq(records, LAMBDA r : r.downloadable)
    IN  [i \in DOMAIN downloaded |-> downloaded[i].content_reference]

InitStorage ==
    /\ storage \in Requests
    /\ files_downloaded = <<>>
    /\ data = Profiles({}, <<>>, {})
    /\ network = CracBuilder(NetworkObjects, {})
    /\ args = NoIds
    /\ limits = NoLimits
    /\ crac = NotBuilt
    /\ pc = "off"
    /\ exc = "none"
    /\ result = NoDocument
    /\ history = <<>>
    /\ HandlerOff
    /\ ServicesOff

GetLatestInputData ==
    /\ storage.requested
    /\ ~storage.returned
    /\ files_downloaded' = get_latest_input_data(storage)
    /\ storage' = [storage EXCEPT !.returned = TRUE]
    /\ UNCHANGED <<builderVars, handlerVars, serviceVars>>

NextStorage == GetLatestInputData

SpecStorage == InitStorage /\ [][NextStorage]_vars

(***************************************************************************)
(* The settings managers (src/rao/parameters/manager.py).  A config is a   *)
(* tree of Python objects: dictionaries and lists are objects of the heap, *)
(* held by reference, numbers are held by value.  The address of an object *)
(* is its index in heap.  A path is the list of keys path.split('.')       *)
(* gives.                                                                  *)
(***************************************************************************)
Number(n) == [kind |-> "int", n |-> n]
Ref(a) == [kind |-> "ref", a |-> a]
DictObject(items) == [kind |-> "dict", items |-> items]
ListObject(elems) == [kind |-> "list", elems |-> elems]
Dict(items) == [kind |-> "dict", items |-> items]
List(elems) == [kind |-> "list", elems |-> elems]

\* the keys of the dictionaries, in the order of iteration
KeyOrder == <<"a", "b", "c">>
Keys == {KeyOrder[i] : i \in DOMAIN KeyOrder}

\* isinstance(v, dict)
IsDict(h, v) == v.kind = "ref" /\ h[v.a].kind = "dict"

\* the value a reference stands for: the tree below it
RECURSIVE Value(_, _)
Value(h, v) ==
    IF v.kind # "ref" THEN v
    ELSE IF h[v.a].kind = "list" THEN List(h[v.a].elems)
    ELSE Dict([k \in DOMAIN h[v.a].items |-> Value(h, h[v.a].items[k])])

\* the object literal of a value is made: new objects for its dictionaries and lists
RECURSIVE New(_, _), NewItems(_, _, _, _)
New(h, value) ==
    IF value.kind = "int" THEN [h |-> h, v |-> value]
    ELSE IF value.kind = "list"
    THEN [h |-> Append(h, ListObject(value.elems)), v |-> Ref(Len(h) + 1)]
    ELSE LET a == Len(h) + 1
         IN  [h |-> NewItems(Append(h, DictObject(<<>>)), a, value.items, 1), v |-> Ref(a)]

NewItems(h, a, items, i) ==
    IF i > Len(KeyOrder) THEN h
    ELSE IF KeyOrder[i] \notin DOMAIN items THEN NewItems(h, a, items, i + 1)
    ELSE LET r == New(h, items[KeyOrder[i]])
         IN  NewItems([r.h EXCEPT ![a].items = (KeyOrder[i] :> r.v) @@ @], a, items, i + 1)

\* copy without the copy: the same object
deepcopy_same_object(h, v) == [h |-> h, v |-> v]

\* copy.deepcopy(v): a new object for every dictionary and list below v
deepcopy(h, v) == New(h, Value(h, v))

\* _deep_merge(a, b) of both managers, a and b references to dictionaries: res is a deep
\* copy of a, and for each key of b either the merge of the two dictionaries or a deep
\* copy of b's value
RECURSIVE deep_merge(_, _, _), MergeItems(_, _, _, _)
deep_merge(h, a, b) ==
    LET res == deepcopy(h, a)
    IN  [h |-> MergeItems(res.h, res.v, b, 1), v |-> res.v]

MergeItems(h, res, b, i) ==
    IF i > Len(KeyOrder) THEN h
    ELSE IF KeyOrder[i] \notin DOMAIN h[b.a].items THEN MergeItems(h, res, b, i + 1)
    ELSE LET k == KeyOrder[i]
             v == h[b.a].items[k]
             r == IF IsDict(h, v) /\ k \in DOMAIN h[res.a].items /\ IsDict(h, h[res.a].items[k])
                  THEN deep_merge(h, h[res.a].items[k], v)
                  ELSE deepcopy(h, v)
         IN  MergeItems([r.h EXCEPT ![res.a].items = (k :> r.v) @@ @], res, b, i + 1)

\* get(path, default): val.get(k, default) for each key while val is a dictionary, default
\* otherwise; default takes the place of val as soon as a key is missing
RECURSIVE get(_, _, _, _)
get(h, val, keys, default) ==
    IF keys = <<>> THEN val
    ELSE get(h,
             IF IsDict(h, val) /\ Head(keys) \in DOMAIN h[val.a].items
             THEN h[val.a].items[Head(keys)] ELSE default,
             Tail(keys), default)

\* _set_single(path, value): d = d.setdefault(k, {}) for every key but the last, then
\* d[last] = value; setdefault on a number or a list is an AttributeError, an item
\* assignment to a number a TypeError, to a list with a key a TypeError
RECURSIVE set_single(_, _, _, _)
set_single(h, d, keys, value) ==
    IF ~IsDict(h, d)
    THEN [h |-> h, exc |-> IF Len(keys) = 1 THEN "TypeError" ELSE "AttributeError"]
    ELSE IF Len(keys) = 1
    THEN [h |-> [h EXCEPT ![d.a].items = (keys[1] :> value) @@ @], exc |-> "none"]
    ELSE IF Head(keys) \in DOMAIN h[d.a].items
    THEN set_single(h, h[d.a].items[Head(keys)], Tail(keys), value)
    ELSE LET a == Len(h) + 1
             h1 == [Append(h, DictObject(<<>>)) EXCEPT ![d.a].items = (Head(keys) :> Ref(a)) @@ @]
         IN  set_single(h1, Ref(a), Tail(keys), value)

\* the default settings of the repository (rao_v30.json, loadflow.py)
DefaultSettings ==
    Dict([k \in {"a", "b"} |->
            IF k = "a" THEN Dict([j \in {"a", "b"} |-> IF j = "a" THEN Number(1) ELSE List(<<1, 2>>)])
            ELSE Number(3)])

\* what the override file holds when it exists: a mapping, or a list
OverrideFiles ==
    { Dict(<<>>),
      Dict([k \in {"a"} |-> Dict([j \in {"b", "c"} |-> IF j = "b" THEN Number(5) ELSE Dict([i \in {"a"} |-> Number(6)])])]),
      Dict([k \in {"a", "c"} |-> IF k = "a" THEN Number(7) ELSE List(<<8>>)]),
      Dict([k \in {"b"} |-> Dict([j \in {"a"} |-> Number(4)])]),
      List(<<1>>) }

\* the environment of a construction: the manager's class, the override path from the
\* argument or the environment variable, and the file at that path
Environments ==
    { [constructed |-> FALSE, class |-> c, override_path |-> p, exists |-> e, file |-> f, exc |-> "none"] :
        c \in {"RaoSettingsManager", "LoadflowSettingsManager"},
        p \in {NoneStr, "override.json"}, e \in BOOLEAN, f \in OverrideFiles }

Paths == {<<"a">>, <<"c">>, <<"a", "a">>, <<"a", "c">>, <<"c", "a">>, <<"b", "a">>}
SetValues == {Number(1), Number(2)}
Defaults == {Number(9), Dict([k \in {"a"} |-> Number(0)])}

NoCall == [op |-> "none"]

InitSettings ==
    /\ settings \in {e \in Environments : (e.override_path = NoneStr) => (~e.exists /\ e.file = Dict(<<>>))}
    /\ heap = <<>>
    /\ CoreOff
    /\ S3Off /\ FlattenerOff /\ ElasticOff

\* the manager after a construction that merged base and override into config
Constructed(env, base, override, merged) ==
    [constructed |-> TRUE, class |-> env.class, override_path |-> env.override_path, exists |-> env.exists, file |-> env.file, exc |-> "none", base |-> base, override |-> override, config |-> merged, ops |-> 0, last |-> NoCall]

\* RaoSettingsManager.__init__ and _load_and_merge: _load_json gives {} for a missing
\* file; the items() of an override that is no dictionary is an AttributeError
ConstructRao ==
    /\ ~settings.constructed /\ settings.exc = "none"
    /\ settings.class = "RaoSettingsManager"
    /\ LET base == New(heap, DefaultSettings)
           override == New(base.h, IF settings.override_path # NoneStr /\ settings.exists
                                   THEN settings.file ELSE Dict(<<>>))
       IN  IF IsDict(override.h, override.v)
           THEN LET merged == deep_merge(override.h, base.v, override.v)
                IN  /\ heap' = merged.h
                    /\ settings' = Constructed(settings, base.v, override.v, merged.v)
           ELSE /\ heap' = override.h
                /\ settings' = [settings EXCEPT !.exc = "AttributeError"]
    /\ UNCHANGED <<coreVars, s3Vars, flattener, elastic>>

\* LoadflowSettingsManager.__init__ without an Elasticsearch server: the repository
\* defaults are the base; with an override path self._load_override_file(path) is called,
\* a static method declared with (self, path), which is a TypeError for the missing
\* argument; without one the overrides are {}
ConstructLoadflow ==
    /\ ~settings.constructed /\ settings.exc = "none"
    /\ settings.class = "LoadflowSettingsManager"
    /\ IF settings.override_path # NoneStr
       THEN /\ settings' = [settings EXCEPT !.exc = "TypeError"]
            /\ heap' = New(heap, DefaultSettings).h
       ELSE LET base == New(heap, DefaultSettings)
                override == New(base.h, Dict(<<>>))
                merged == deep_merge(override.h, base.v, override.v)
            IN  /\ heap' = merged.h
                /\ settings' = Constructed(settings, base.v, override.v, merged.v)
    /\ UNCHANGED <<coreVars, s3Vars, flattener, elastic>>

\* set(path, value) with a path: _set_single
SetSingle ==
    /\ settings.constructed
    /\ settings.ops < MaxOps
    /\ \E path \in Paths, value \in SetValues :
        LET r == set_single(heap, settings.config, path, value)
        IN  /\ heap' = r.h
            /\ settings' = [settings EXCEPT !.ops = @ + 1,
                               !.last = [op |-> "set", path |-> path, value |-> value, exc |-> r.exc, before |-> Value(heap, settings.config)]]
    /\ UNCHANGED <<coreVars, s3Vars, flattener, elastic>>

\* get(path, default), the default an object of the caller that lives for the call
Get ==
    /\ settings.constructed
    /\ \E path \in Paths, default \in Defaults :
        LET d == New(heap, default)
        IN  settings' = [settings EXCEPT
                !.last = [op |-> "get", path |-> path, default |-> default, returned |-> Value(d.h, get(d.h, settings.config, path, d.v))]]
    /\ UNCHANGED <<heap, coreVars, s3Vars, flattener, elastic>>

NextSettings ==
    \/ ConstructRao
    \/ ConstructLoadflow
    \/ SetSingle
    \/ Get

SpecSettings == InitSettings /\ [][NextSettings]_vars

(***************************************************************************)
(* S3Minio (src/integrations/s3_storage.py).  Times are counted in units   *)
(* of the clock; a token is the credentials the server gave, with their    *)
(* Expiration.                                                             *)
(***************************************************************************)
\* TOKEN_RENEW_MARGIN, in units of the clock
Margin == 2

\* the lifetimes the server gives to a token (DurationSeconds and the server's policy)
Lifetimes == {Margin, Margin + 1, Margin + 2}

Operations == {"upload_object", "download_object", "object_exists", "list_objects", "query_objects"}

\* _get_credentials at time now
Credentials(now, lifetime) == [issued |-> now, Expiration |-> now + lifetime, lifetime |-> lifetime]

\* the comparison of the decorator, taken only after the margin has begun
NeedsRenewal_after_margin(now, token_expiration) == now > token_expiration - Margin

\* renew_authentication_token: now >= self.token_expiration - margin
NeedsRenewal(now, token_expiration) == now >= token_expiration - Margin

\* _create_client: token_expiration and client from the credentials
create_client(c, credentials) ==
    [c EXCEPT !.token_expiration = credentials.Expiration, !.client = credentials]

\* S3Minio.__init__ at time 0
S3Minio(lifetime) ==
    create_client([constructed |-> TRUE, now |-> 0, token_expiration |-> 0, client |-> Credentials(0, 0), last |-> NoCall],
                  Credentials(0, lifetime))

InitS3 ==
    /\ s3 \in {S3Minio(lifetime) : lifetime \in Lifetimes}
    /\ threads = <<>>
    /\ CoreOff
    /\ SettingsOff /\ FlattenerOff /\ ElasticOff

\* a decorated method is called: the decorator renews the token when needed, then the
\* method issues its request with self.client
Wrapper(op) ==
    /\ s3.constructed
    /\ \E lifetime \in Lifetimes :
        LET renew == NeedsRenewal(s3.now, s3.token_expiration)
            c == IF renew THEN create_client(s3, Credentials(s3.now, lifetime)) ELSE s3
        IN  s3' = [c EXCEPT !.last = [op |-> op, at |-> s3.now, renewed |-> renew, before |-> s3.token_expiration, client |-> c.client]]
    /\ UNCHANGED <<threads, coreVars, settingsVars, flattener, elastic>>

UploadObject == Wrapper("upload_object")
DownloadObject == Wrapper("download_object")
ObjectExists == Wrapper("object_exists")
ListObjects == Wrapper("list_objects")
QueryObjects == Wrapper("query_objects")

\* the clock advances between calls
Tick ==
    /\ s3.constructed
    /\ s3.now < MaxTime
    /\ s3' = [s3 EXCEPT !.now = @ + 1]
    /\ UNCHANGED <<threads, coreVars, settingsVars, flattener, elastic>>

NextS3 ==
    \/ UploadObject
    \/ DownloadObject
    \/ ObjectExists
    \/ ListObjects
    \/ QueryObjects
    \/ Tick

SpecS3 == InitS3 /\ [][NextS3]_vars

(***************************************************************************)
(* Several callers of one S3Minio instance.  The decorator and             *)
(* _create_client take no lock, so the statements of the callers           *)
(* interleave: the comparison, _get_credentials, the assignment of         *)
(* token_expiration, the assignment of client, and the request.            *)
(***************************************************************************)
Threads == {"t1", "t2"}

Idle == [pc |-> "idle", op |-> "none", credentials |-> Credentials(0, 0)]

InitS3Threads ==
    /\ s3 \in {S3Minio(lifetime) : lifetime \in Lifetimes \ {Margin}}
    /\ threads = [t \in Threads |-> Idle]
    /\ CoreOff
    /\ SettingsOff /\ FlattenerOff /\ ElasticOff

\* a caller enters a decorated method
Enter(t) ==
    /\ threads[t].pc = "idle"
    /\ \E op \in {"upload_object", "download_object"} :
        threads' = [threads EXCEPT ![t] = [Idle EXCEPT !.pc = "wrapper", !.op = op]]
    /\ UNCHANGED <<s3, coreVars, settingsVars, flattener, elastic>>

\* line 25: the comparison of the clock with token_expiration
Compare(t) ==
    /\ threads[t].pc = "wrapper"
    /\ threads' = [threads EXCEPT ![t].pc =
            IF NeedsRenewal(s3.now, s3.token_expiration) THEN "_get_credentials" ELSE "request"]
    /\ UNCHANGED <<s3, coreVars, settingsVars, flattener, elastic>>

\* line 50: credentials = self._get_credentials(), of the lifetime the server gives
GetCredentials(t) ==
    /\ threads[t].pc = "_get_credentials"
    /\ threads' = [threads EXCEPT ![t].credentials = Credentials(s3.now, s3.client.lifetime),
                               ![t].pc = "token_expiration"]
    /\ UNCHANGED <<s3, coreVars, settingsVars, flattener, elastic>>

\* line 51: self.token_expiration = ...
SetTokenExpiration(t) ==
    /\ threads[t].pc = "token_expiration"
    /\ s3' = [s3 EXCEPT !.token_expiration = threads[t].credentials.Expiration]
    /\ threads' = [threads EXCEPT ![t].pc = "client"]
    /\ UNCHANGED <<coreVars, settingsVars, flattener, elastic>>

\* lines 52-58: self.client = minio.Minio(...)
SetClient(t) ==
    /\ threads[t].pc = "client"
    /\ s3' = [s3 EXCEPT !.client = threads[t].credentials]
    /\ threads' = [threads EXCEPT ![t].pc = "request"]
    /\ UNCHANGED <<coreVars, settingsVars, flattener, elastic>>

\* the method issues its request with self.client and returns
Request(t) ==
    /\ threads[t].pc = "request"
    /\ s3' = [s3 EXCEPT !.last = [op |-> threads[t].op, by |-> t, stored |-> s3.token_expiration, client |-> s3.client.Expiration]]
    /\ threads' = [threads EXCEPT ![t] = Idle]
    /\ UNCHANGED <<coreVars, settingsVars, flattener, elastic>>

\* the clock advances at any moment
TickThreads ==
    /\ s3.now < MaxTime
    /\ s3' = [s3 EXCEPT !.now = @ + 1]
    /\ UNCHANGED <<threads, coreVars, settingsVars, flattener, elastic>>

NextS3Threads ==
    \/ \E t \in Threads : Enter(t)
    \/ \E t \in Threads : Compare(t)
    \/ \E t \in Threads : GetCredentials(t)
    \/ \E t \in Threads : SetTokenExpiration(t)
    \/ \E t \in Threads : SetClient(t)
    \/ \E t \in Threads : Request(t)
    \/ TickThreads

SpecS3Threads == InitS3Threads /\ [][NextS3Threads]_vars

(***************************************************************************)
(* CIMFlattener (src/remedial_action_schedules/handlers.py).  A graph is a *)
(* set of triples; the object of a triple is a literal or a subject.  The  *)
(* recursion of _subject_to_object is kept as a stack of frames, one for   *)
(* each call in progress; a frame holds the edges its loops have yet to    *)
(* take, outgoing first, then incoming.  The triples of a subject are      *)
(* taken in the order of TripleOrder.                                      *)
(***************************************************************************)
Triple(s, p, o, literal) == [s |-> s, p |-> p, o |-> o, literal |-> literal]

\* rdf:type of the subjects; D is referred to and has no triple of its own
TypeTriples(classOfB) ==
    { Triple("A", "type", "Schedule", FALSE), Triple("B", "type", classOfB, FALSE),
      Triple("C", "type", "Action", FALSE), Triple("M", "type", "FullModel", FALSE) }

TripleOrder ==
    << Triple("A", "p", "B", FALSE), Triple("B", "p", "A", FALSE), Triple("A", "q", "A", FALSE),
       Triple("B", "q", "C", FALSE), Triple("C", "p", "A", FALSE), Triple("A", "name", "x", TRUE),
       Triple("B", "p", "D", FALSE), Triple("M", "DependentOn", "A", FALSE),
       Triple("A", "type", "Schedule", FALSE), Triple("B", "type", "Schedule", FALSE),
       Triple("B", "type", "Action", FALSE), Triple("C", "type", "Action", FALSE),
       Triple("M", "type", "FullModel", FALSE) >>

EdgeCatalog == {TripleOrder[i] : i \in {j \in DOMAIN TripleOrder : TripleOrder[j].p # "type"}}

Graphs ==
    { edges \cup TypeTriples(classOfB) :
        edges \in {E \in SUBSET EdgeCatalog : Cardinality(E) <= MaxTriples},
        classOfB \in {"Schedule", "Action"} }

\* the order in which the subjects are met
SubjectOrder == <<"A", "B", "C", "M">>

\* any(True for _ in g.triples((o, None, None)))
HasTriples(g, o) == \E t \in g : t.s = o

\* _is_fullmodel
is_fullmodel(g, x) == \E t \in g : t.s = x /\ t.p = "type" /\ t.o = "FullModel"

\* the triples of g.triples((s, None, None)) but rdf:type, as edges to take
Outgoing(g, x) ==
    LET ts == SelectSeq(TripleOrder, LAMBDA t : t \in g /\ t.s = x /\ t.p # "type")
    IN  [i \in DOMAIN ts |-> [dir |-> "out", p |-> ts[i].p, other |-> ts[i].o, literal |-> ts[i].literal]]

\* self._incoming_index[s]: the triples whose object is s, those of the header left out
Incoming(g, x) ==
    LET ts == SelectSeq(TripleOrder,
                        LAMBDA t : t \in g /\ ~t.literal /\ t.o = x /\ ~is_fullmodel(g, t.s))
    IN  [i \in DOMAIN ts |-> [dir |-> "in", p |-> ts[i].p, other |-> ts[i].s, literal |-> FALSE]]

\* _class_of_subject
ClassOf(g, x) ==
    IF \E t \in g : t.s = x /\ t.p = "type"
    THEN (CHOOSE t \in g : t.s = x /\ t.p = "type").o ELSE NoneStr

\* _best_id_for_subject, and a literal turned into a Python value
Identifier(x) == [kind |-> "id", id |-> x]
LiteralValue(x) == [kind |-> "literal", value |-> x]

\* the set of the path without the subject added
Visit_without_subject(visited, x) == visited

\* visited = set(visited); visited.add(s)
Visit(visited, x) == visited \cup {x}

\* the frame of a call _subject_to_object(s, depth_left, visited) that expands s
Frame(g, x, depth_left, visited, key) ==
    [s |-> x, depth_left |-> depth_left, visited |-> Visit(visited, x), key |-> key, work |-> Outgoing(g, x) \o (IF depth_left > 0 THEN Incoming(g, x) ELSE <<>>), multimap |-> <<>>]

\* the condition under which the object or the source of an edge is expanded
Expands(g, frame, e) ==
    /\ ~e.literal
    /\ frame.depth_left > 0
    /\ e.other \notin frame.visited
    /\ HasTriples(g, e.other)

Entry(key, value, expanded) == [key |-> key, value |-> value, expanded |-> expanded]

ValuesAt(multimap, key) ==
    LET es == SelectSeq(multimap, LAMBDA e : e.key = key)
    IN  [i \in DOMAIN es |-> es[i].value]

\* lines 135-141 and 178-185: @type, @id and the collapse of the multimap: a list for a
\* key that holds an expanded child or several values, the value itself otherwise
Collapse(g, frame) ==
    LET keys == {frame.multimap[i].key : i \in DOMAIN frame.multimap}
        object_keys == {frame.multimap[i].key : i \in {j \in DOMAIN frame.multimap : frame.multimap[j].expanded}}
    IN  [kind |-> "dict", type |-> ClassOf(g, frame.s), id |-> frame.s,
         items |-> [k \in keys |->
                        IF k \in object_keys \/ Len(ValuesAt(frame.multimap, k)) > 1
                        THEN [kind |-> "list", elems |-> ValuesAt(frame.multimap, k)]
                        ELSE ValuesAt(frame.multimap, k)[1]]]

InitFlattener ==
    /\ flattener \in { [constructed |-> TRUE, g |-> g, inline_depth |-> d, pc |-> "build_from_class", roots |-> <<>>, stack |-> <<>>, out |-> <<>>] :
                        g \in Graphs, d \in {1, MaxDepth} }
    /\ CoreOff
    /\ SettingsOff /\ S3Off /\ ElasticOff

\* build_from_class("Schedule"): the subjects of the class, each once
BuildFromClass ==
    /\ flattener.constructed
    /\ flattener.pc = "build_from_class"
    /\ flattener' = [flattener EXCEPT
            !.roots = SelectSeq(SubjectOrder, LAMBDA x : Triple(x, "type", "Schedule", FALSE) \in flattener.g),
            !.pc = "roots"]
    /\ UNCHANGED <<coreVars, settingsVars, s3Vars, elastic>>

\* _subject_to_object(s, self.inline_depth, set(), is_root=True) for the next root
ExpandRoot ==
    /\ flattener.constructed
    /\ flattener.pc = "roots"
    /\ flattener.stack = <<>>
    /\ flattener.roots # <<>>
    /\ flattener' = [flattener EXCEPT
            !.stack = <<Frame(flattener.g, Head(flattener.roots), flattener.inline_depth, {}, NoneStr)>>,
            !.roots = Tail(@)]
    /\ UNCHANGED <<coreVars, settingsVars, s3Vars, elastic>>

\* one turn of the loops over the edges: the other end is expanded by a recursive call,
\* or its value (literal or identifier) is added under the predicate
TakeEdge ==
    /\ flattener.constructed
    /\ flattener.stack # <<>>
    /\ LET n == Len(flattener.stack)
           frame == flattener.stack[n]
       IN  /\ frame.work # <<>>
           /\ LET e == Head(frame.work)
              IN  IF Expands(flattener.g, frame, e)
                  THEN flattener' = [flattener EXCEPT !.stack =
                            Append(@, Frame(flattener.g, e.other, frame.depth_left - 1, frame.visited, e.p))]
                  ELSE flattener' = [flattener EXCEPT
                            !.stack[n].work = Tail(@),
                            !.stack[n].multimap = Append(@, Entry(e.p, IF e.literal THEN LiteralValue(e.other) ELSE Identifier(e.other), FALSE))]
    /\ UNCHANGED <<coreVars, settingsVars, s3Vars, elastic>>

\* return obj: the caller adds the child under the child's @type, or the predicate when it
\* has none; the object of a root is added to the list build_from_class returns
ReturnObject ==
    /\ flattener.constructed
    /\ flattener.stack # <<>>
    /\ LET n == Len(flattener.stack)
           frame == flattener.stack[n]
           obj == Collapse(flattener.g, frame)
       IN  /\ frame.work = <<>>
           /\ IF n = 1
              THEN flattener' = [flattener EXCEPT !.stack = <<>>, !.out = Append(@, obj)]
              ELSE flattener' = [flattener EXCEPT
                        !.stack = [SubSeq(@, 1, n - 1) EXCEPT
                            ![n - 1].work = Tail(@),
                            ![n - 1].multimap = Append(@, Entry(IF obj.type # NoneStr THEN obj.type ELSE frame.key, obj, TRUE))]]
    /\ UNCHANGED <<coreVars, settingsVars, s3Vars, elastic>>

\* build_from_class returns the list
ReturnObjects ==
    /\ flattener.constructed
    /\ flattener.pc = "roots"
    /\ flattener.stack = <<>>
    /\ flattener.roots = <<>>
    /\ flattener' = [flattener EXCEPT !.pc = "done"]
    /\ UNCHANGED <<coreVars, settingsVars, s3Vars, elastic>>

NextFlattener ==
    \/ BuildFromClass
    \/ ExpandRoot
    \/ TakeEdge
    \/ ReturnObject
    \/ ReturnObjects

\* the call runs on: no step of it waits for anything
SpecFlattener == InitFlattener /\ [][NextFlattener]_vars /\ WF_vars(NextFlattener)

(***************************************************************************)
(* Elastic.send_to_elastic_bulk (src/integrations/elastic.py).  A line of  *)
(* the bulk body is an index action or a document; the action carries the  *)
(* _id generated for its document when id_from_metadata is set.            *)
(***************************************************************************)
DocOrder == <<"d1", "d2", "d3", "d4">>

ActionLine(id) == [kind |-> "index", id |-> id]
DocumentLine(id) == [kind |-> "document", id |-> id]

\* lines 116-120: each element preceded by its index action
Interleave(docs, id_from_metadata) ==
    [k \in 1..(2 * Len(docs)) |->
        IF k % 2 = 1
        THEN ActionLine(IF id_from_metadata THEN docs[(k + 1) \div 2] ELSE NoneStr)
        ELSE DocumentLine(docs[k \div 2])]

\* json_message_list[batch:batch + batch_size]
Slice(lines, batch, batch_size) ==
    SubSeq(lines, batch + 1, IF batch + batch_size < Len(lines) THEN batch + batch_size ELSE Len(lines))

\* all(response_list)
AllOk(response_list) == \A i \in DOMAIN response_list : response_list[i]

InitElastic ==
    /\ elastic \in { [called |-> TRUE, json_message_list |-> SubSeq(DocOrder, 1, n), batch_size |-> b, id_from_metadata |-> m, id_metadata_list |-> l, pc |-> "call", lines |-> <<>>, batch |-> 0, posts |-> <<>>, response_list |-> <<>>, returned |-> FALSE] :
                        n \in 0..MaxDocs, b \in 1..MaxBatch, m \in BOOLEAN, l \in BOOLEAN }
    /\ CoreOff
    /\ SettingsOff /\ S3Off /\ FlattenerOff

\* lines 101-120: the check of the arguments, then the list of lines
SendToElasticBulk ==
    /\ elastic.called
    /\ elastic.pc = "call"
    /\ IF elastic.id_from_metadata /\ ~elastic.id_metadata_list
       THEN elastic' = [elastic EXCEPT !.pc = "raised"]
       ELSE elastic' = [elastic EXCEPT
                !.lines = Interleave(elastic.json_message_list, elastic.id_from_metadata),
                !.pc = "batches"]
    /\ UNCHANGED <<coreVars, settingsVars, s3Vars, flattener>>

\* lines 123-135: one turn of the loop, the POST of a batch and its response.ok
PostBatch ==
    /\ elastic.called
    /\ elastic.pc = "batches"
    /\ elastic.batch < Len(elastic.lines)
    /\ \E ok \in BOOLEAN :
        elastic' = [elastic EXCEPT
            !.posts = Append(@, Slice(elastic.lines, elastic.batch, elastic.batch_size)),
            !.response_list = Append(@, ok),
            !.batch = @ + elastic.batch_size]
    /\ UNCHANGED <<coreVars, settingsVars, s3Vars, flattener>>

\* line 137: return all(response_list)
ReturnAll ==
    /\ elastic.called
    /\ elastic.pc = "batches"
    /\ elastic.batch >= Len(elastic.lines)
    /\ elastic' = [elastic EXCEPT !.pc = "returned", !.returned = AllOk(elastic.response_list)]
    /\ UNCHANGED <<coreVars, settingsVars, s3Vars, flattener>>

NextElastic ==
    \/ SendToElasticBulk
    \/ PostBatch
    \/ ReturnAll

SpecElastic == InitElastic /\ [][NextElastic]_vars

(***************************************************************************)
(* Properties of the returned document.                                    *)
(***************************************************************************)
Returned == pc = "done"

IsZero(th) == th.min = Num(0) /\ th.max = Num(0)
AllZero(m) == \A j \in DOMAIN m.thresholds : IsZero(m.thresholds[j])

\* C1: no FlowCnec of a returned document has a threshold with min = 0 and max = 0, and
\* the consistency pass, which runs after the limit update, removes exactly the
\* FlowCnecs whose thresholds are all (0, 0) and keeps the others in their order.
C1_ConsistencyPass ==
    /\ [](Returned =>
            \A i \in DOMAIN result.flowCnecs :
                \A j \in DOMAIN result.flowCnecs[i].thresholds :
                    ~IsZero(result.flowCnecs[i].thresholds[j]))
    /\ [][pc = "perform_cnec_consistency_check" =>
            crac'.flowCnecs = SelectSeq(crac.flowCnecs, LAMBDA m : ~AllZero(m))]_vars
    /\ [][pc' = "perform_cnec_consistency_check" => pc = "update_limits_from_network"]_vars

\* a returned document that lost one FlowCnec to the consistency pass and kept another
C1_Witness ==
    /\ Returned
    /\ result.flowCnecs # <<>>
    /\ \E i \in DOMAIN data.assessed :
        /\ data.assessed[i].normalEnabled = "true"
        /\ data.assessed[i].inBaseCase = "true"
        /\ data.assessed[i].ConductingEquipment \in network.ID
        /\ \A k \in DOMAIN crac.flowCnecs :
              crac.flowCnecs[k].id # <<data.assessed[i].mRID, "-preventive">>

\* C2: in a returned document a FlowCnec carries a contingencyId iff its instant is
\* curative, and the contingencyId of a curative FlowCnec is the id of a contingency
\* of the same document.
C2_ContingencyIdIffCurative ==
    Returned =>
        \A i \in DOMAIN result.flowCnecs :
            LET m == result.flowCnecs[i]
            IN  /\ ("contingencyId" \in DOMAIN m) <=> (m.instant = "curative")
                /\ m.instant = "curative" =>
                      \E k \in DOMAIN result.contingencies :
                          result.contingencies[k].id = m.contingencyId

\* a returned document with a preventive and a curative FlowCnec
C2_Witness ==
    /\ Returned
    /\ \E i \in DOMAIN result.flowCnecs : result.flowCnecs[i].instant = "preventive"
    /\ \E i \in DOMAIN result.flowCnecs : result.flowCnecs[i].instant = "curative"

\* an assessed element that is enabled and whose equipment is in the network
Eligible(ae) == ae.normalEnabled = "true" /\ ae.ConductingEquipment \in network.ID

\* the document has a FlowCnec on the equipment of the assessed element
References(doc, ae) ==
    \E k \in DOMAIN doc.flowCnecs :
        doc.flowCnecs[k].networkElementId = serialize_with_prefix(ae.ConductingEquipment)

\* the document has a FlowCnec made from the assessed element
HasCnecOf(doc, ae) ==
    \E k \in DOMAIN doc.flowCnecs :
        /\ doc.flowCnecs[k].id[1] = ae.mRID
        /\ doc.flowCnecs[k].networkElementId = serialize_with_prefix(ae.ConductingEquipment)

\* the instants for which process_cnecs makes a FlowCnec of the element
InstantsOf(ae, doc) ==
    (IF ae.inBaseCase \in {"true", "True", "TRUE"} THEN {"preventive"} ELSE {})
    \cup (IF doc.contingencies # <<>> THEN {"curative"} ELSE {})

\* the limit update finds a limit for the element at the instant
LimitFound(ae, instant) ==
    \E col \in Quantities :
        Truthy(Probe(limits, [networkElementId |-> ae.ConductingEquipment,
                              instant |-> instant], col))

\* the serialization filter drops the FlowCnecs of the element
Is3WTransformer(ae) == ContainsAT(ae.name) /\ ae.AssessedSystemOperator = ELERING

\* C3 as stated: every enabled assessed element whose equipment is in the network has a
\* FlowCnec in the returned document, whatever the contingencies and its limits.
C3_Original ==
    Returned => \A i \in DOMAIN data.assessed :
                    Eligible(data.assessed[i]) => References(result, data.assessed[i])

\* C3 as amended: the returned document has a FlowCnec of an enabled assessed element
\* whose equipment is in the network iff the element is in base case or the document has a
\* contingency, the limit update finds a limit for the element at one of these instants,
\* and the serialization filter for three-winding transformers does not drop it.
C3_CnecOfEligibleElement ==
    Returned => \A i \in DOMAIN data.assessed :
                    LET ae == data.assessed[i]
                    IN  Eligible(ae) =>
                            (HasCnecOf(result, ae) <=>
                                /\ ~Is3WTransformer(ae)
                                /\ \E instant \in InstantsOf(ae, result) : LimitFound(ae, instant))

\* a returned document with a curative FlowCnec of an element that is not in base case,
\* for an input with another eligible element that has no FlowCnec
C3_Witness ==
    /\ Returned
    /\ \E i \in DOMAIN data.assessed :
        /\ Eligible(data.assessed[i])
        /\ data.assessed[i].inBaseCase = "false"
        /\ HasCnecOf(result, data.assessed[i])
    /\ \E i \in DOMAIN data.assessed :
        /\ Eligible(data.assessed[i])
        /\ ~HasCnecOf(result, data.assessed[i])

\* the values the limits table has for an equipment, a kind and a quantity
ValuesOf(e, kind, col) == Numbers({r \in RowsOfKind(limits, kind) : r.ID_Equipment = e}, col)

\* the threshold the probe order current, active power, apparent power gives an equipment
\* when only the quantities that have a value for it are considered
ProbedThreshold(e, kind) ==
    IF ValuesOf(e, kind, "CurrentLimit") # {}
    THEN LET limit == MinOf(ValuesOf(e, kind, "CurrentLimit"))
         IN  Threshold("ampere", Num(-limit), Num(limit), 1)
    ELSE IF ValuesOf(e, kind, "ActivePowerLimit") # {}
    THEN LET limit == MinOf(ValuesOf(e, kind, "ActivePowerLimit"))
         IN  Threshold("megawatt", Num(-limit), Num(limit), 1)
    ELSE LET limit == RoundHalfEven(MinOf(ValuesOf(e, kind, "ApparentPowerLimit")) * 9, 10)
         IN  Threshold("megawatt", Num(-limit), Num(limit), 1)

\* C4 as stated, for the preventive FlowCnecs of an element whose PATL values are not zero:
\* the threshold after the limit update comes from the first of current, active-power and
\* apparent-power limit that has a value for the element, a quantity without a value for
\* the element neither being selected nor blocking a later probe; ampere for the current
\* limit, megawatt otherwise, the apparent-power limit times 0.9 rounded to one decimal.
C4_ProbeOrder ==
    pc \in {"perform_cnec_consistency_check", "return", "done"} =>
        \A i \in DOMAIN crac.flowCnecs :
            LET m == crac.flowCnecs[i]
                e == m.networkElementId
            IN  (/\ m.instant = "preventive"
                 /\ \E col \in Quantities : ValuesOf(e, "patl", col) # {}
                 /\ \A col \in Quantities : 0 \notin ValuesOf(e, "patl", col))
                => m.thresholds = <<ProbedThreshold(e, "patl")>>

\* the active-power limits the network gives an equipment for a kind
GivenActivePower(e, kind) ==
    {r.value : r \in {x \in JoinedLimits(network) : /\ IDEquipment(x) = e
                                                    /\ x.kind = kind
                                                    /\ x.qty = "ActivePowerLimit"}}

C6_NeverRaises ==
    exc \notin {"KeyError: ApparentPowerLimit.value", "IndexError: iloc", "ValueError: item",
                "AttributeError: lower", "KeyError: description", "ValidationError: description"}

\* the alterations of a remedial action that yield an action of the given types
Yielding(ra, types) ==
    SelectSeq(ra.alterations, LAMBDA a : a.Type \in types /\ a.Equipment \in network.ID)

\* the remedial action has exactly this direction on all its property ranges
HasDirection(ra, direction) == Elements(Directions(ra)) = {direction}

\* the NetworkActions a document has for a remedial action
ActionsOf(c, ra) == SelectSeq(c.networkActions, LAMBDA na : na.id[1] = ra.mRID)

\* two lists of TerminalsActions on the same elements in the same order, inverted
Inverted(t1, t2) ==
    /\ Len(t1) = Len(t2)
    /\ \A j \in DOMAIN t2 :
        /\ "actionType" \in DOMAIN t2[j]
        /\ t2[j].networkElementId = t1[j].networkElementId
        /\ t2[j].actionType = _get_opposite_terminal_connection_value(t1[j].actionType)

\* what C7 asks of the NetworkActions emitted for the remedial actions
TwoOrOneNetworkActions(c) ==
    \A ra \in data.remedial :
        LET emitted == ActionsOf(c, ra)
        IN  /\ (HasDirection(ra, "upAndDown") /\ Yielding(ra, {"TopologyAction"}) # <<>>) =>
                /\ Len(emitted) = 2
                /\ emitted[1].id = <<ra.mRID, "">>
                /\ emitted[2].id = <<ra.mRID, "-opposite-direction">>
                /\ Len(emitted[1].terminalsConnectionActions)
                       = Len(Yielding(ra, {"TopologyAction"}))
                /\ Inverted(emitted[1].terminalsConnectionActions,
                            emitted[2].terminalsConnectionActions)
            /\ (\E d \in {"none", "up", "down"} : HasDirection(ra, d)) =>
                (Yielding(ra, SupportedTypes) # <<>> => Len(emitted) = 1)

\* C7 as stated: process_remedial_actions, unless a remedial action without
\* StaticPropertyRange stops it, emits for every upAndDown remedial action that yields a
\* TerminalsAction, with or without ShuntCompensatorPositionActions, exactly the two
\* NetworkActions <mRID> and <mRID>-opposite-direction, the second with the TerminalsActions
\* of the first inverted and nothing else, and exactly one for any other direction.
C7_OppositeDirection ==
    [][(pc = "process_remedial_actions" /\ exc' \notin {"IndexError: iloc", "ValueError: item"})
           => TwoOrOneNetworkActions(crac')]_vars

\* the activation cost C8 gives the NetworkActions of a remedial action
ClaimedCost(ra) ==
    IF /\ \E i \in DOMAIN ra.alterations : ra.alterations[i].Type = "TopologyAction"
       /\ (HasDirection(ra, "none") \/ HasDirection(ra, "up"))
    THEN 50 ELSE 0

\* C8 as stated: every NetworkAction of the returned document carries an activationCost,
\* 50 when its remedial action has a TopologyAction alteration and direction none or up,
\* 0 otherwise, never negative.
C8_ActivationCost ==
    Returned =>
        \A i \in DOMAIN result.networkActions :
            LET na == result.networkActions[i]
            IN  /\ "activationCost" \in DOMAIN na
                /\ na.activationCost >= 0
                /\ \A ra \in data.remedial :
                    ra.mRID = na.id[1] => na.activationCost = ClaimedCost(ra)

\* the property ranges of the alterations of a remedial action carry more than one
\* distinct direction suffix
MixedDirections(ra) ==
    \E i, j \in DOMAIN ra.alterations :
        \E k \in DOMAIN ra.alterations[i].ranges, l \in DOMAIN ra.alterations[j].ranges :
            ra.alterations[i].ranges[k].direction # ra.alterations[j].ranges[l].direction

\* process_remedial_actions has completed
RemedialActionsProcessed ==
    pc \in {"update_limits_from_network", "perform_cnec_consistency_check", "return", "done"}

\* C9: a remedial action whose property ranges carry more than one distinct direction
\* suffix never has a NetworkAction, neither <mRID> nor <mRID>-opposite-direction, in the
\* document being built or in the returned one; and once process_remedial_actions has
\* completed, every other remedial action of the input with an alteration of a supported
\* type on equipment of the network has its NetworkAction.
C9_MixedDirectionsSkipped ==
    /\ \A ra \in data.remedial :
        MixedDirections(ra) => ActionsOf(crac, ra) = <<>> /\ ActionsOf(result, ra) = <<>>
    /\ RemedialActionsProcessed =>
        \A ra \in data.remedial :
            (~MixedDirections(ra) /\ Yielding(ra, SupportedTypes) # <<>>) =>
                /\ ActionsOf(crac, ra) # <<>>
                /\ ActionsOf(crac, ra)[1].id = <<ra.mRID, "">>

\* a returned document for an input with a remedial action of mixed directions that would
\* yield an action, processed between two others: it has the NetworkActions of the others
C9_Witness ==
    /\ Returned
    /\ \E ra \in data.remedial :
        /\ MixedDirections(ra)
        /\ Yielding(ra, SupportedTypes) # <<>>
        /\ \E before, after \in data.remedial :
            /\ before.mRID = "RA0" /\ ra.mRID = "RA1" /\ after.mRID = "RA2"
            /\ ActionsOf(result, before) # <<>>
            /\ ActionsOf(result, after) # <<>>
    /\ Len(result.networkActions) = 2

\* the contingencies of a set that the argument selects: those in a non-empty list, all
\* of them when the list is empty or absent
Selected(known) ==
    IF args.given /\ args.ids # {} THEN {c \in known : c.mRID \in args.ids} ELSE known

\* the ids of the contingencies of a document
ContingencyIdsOf(doc) == {doc.contingencies[i].id : i \in DOMAIN doc.contingencies}

\* the FlowCnecs of a document for an instant
CnecsAt(doc, instant) == SelectSeq(doc.flowCnecs, LAMBDA m : m.instant = instant)

\* what C10 asks of the returned document, given the contingencies that count as known
SelectionHonoured(known) ==
    /\ ContingencyIdsOf(result) = {c.mRID : c \in Selected(known)}
    /\ Len(result.contingencies) = Cardinality(Selected(known))
    /\ Selected(known) = {} =>
        /\ result.contingencies = <<>>
        /\ CnecsAt(result, "curative") = <<>>
        /\ CnecsAt(result, "preventive")
               = CnecsAt(build_crac(data, network, NoIds).doc, "preventive")

\* C10 as stated: the known contingencies are those having contingency equipment.
C10_Original ==
    Returned => SelectionHonoured({c \in data.contingencies : Len(c.equipment) > 0})

\* C10 as amended: the known contingencies are those that carry Contingency.normalMustStudy
\* and have contingency equipment.  With a non-empty contingency_ids the contingencies of
\* the returned document are exactly the known ones whose mRID is listed; when none is,
\* the document has no contingency, no curative FlowCnec and the preventive FlowCnecs of a
\* build without selection; with an empty or absent contingency_ids all known ones are in.
C10_ContingencySelection ==
    Returned =>
        SelectionHonoured({c \in data.contingencies :
                              c.normalMustStudy # NaN /\ Len(c.equipment) > 0})

\* a document returned for a selection that matches none of the known contingencies of the
\* input, with the preventive FlowCnec of the assessed element
C10_Witness ==
    /\ Returned
    /\ args.given /\ args.ids # {}
    /\ \E c \in data.contingencies : c.normalMustStudy # NaN /\ Len(c.equipment) > 0
    /\ result.contingencies = <<>>
    /\ CnecsAt(result, "preventive") # <<>>

\* the positions of the FlowCnecs a document has of an assessed element for an instant
CnecsOfAt(c, ae, instant) ==
    {k \in DOMAIN c.flowCnecs : /\ c.flowCnecs[k].id[1] = ae.mRID
                                /\ c.flowCnecs[k].instant = instant}

\* the assessed elements of the input with normalEnabled = true and equipment in the network
EligibleElements == {i \in DOMAIN data.assessed : Eligible(data.assessed[i])}

\* process_cnecs has completed and the consistency pass has not run
CnecsProcessed ==
    pc \in {"process_remedial_actions", "update_limits_from_network",
            "perform_cnec_consistency_check"}

\* C11 as stated: process_cnecs starts with the contingencies of the document complete and
\* no FlowCnec yet; once it has completed and before the consistency pass, every enabled
\* assessed element of the network has exactly one curative FlowCnec per contingency of
\* the document, carrying that contingency's id, and exactly one preventive FlowCnec iff
\* inBaseCase is true; the curative FlowCnecs number eligible elements x contingencies.
C11_CurativePerContingency ==
    /\ pc = "process_cnecs" =>
        /\ crac.flowCnecs = <<>>
        /\ crac.contingencies = process_contingencies(Crac, data, args).contingencies
    /\ CnecsProcessed =>
        /\ \A i \in EligibleElements :
            LET ae == data.assessed[i]
            IN  /\ \A j \in DOMAIN crac.contingencies :
                    Cardinality({k \in CnecsOfAt(crac, ae, "curative") :
                        crac.flowCnecs[k].contingencyId = crac.contingencies[j].id}) = 1
                /\ Cardinality(CnecsOfAt(crac, ae, "curative")) = Len(crac.contingencies)
                /\ Cardinality(CnecsOfAt(crac, ae, "preventive"))
                       = (IF Lower(ae.inBaseCase) = "true" THEN 1 ELSE 0)
        /\ Cardinality({k \in DOMAIN crac.flowCnecs : crac.flowCnecs[k].instant = "curative"})
               = Cardinality(EligibleElements) * Len(crac.contingencies)

\* C12 as stated: no FlowCnec is ever made of an assessed element whose normalEnabled is
\* not the string "true": false, missing for the element, or any other value.
C12_OnlyEnabledElements ==
    \A i \in DOMAIN data.assessed :
        data.assessed[i].normalEnabled # "true" =>
            \A k \in DOMAIN crac.flowCnecs : crac.flowCnecs[k].id[1] # data.assessed[i].mRID

\* the limit records of an equipment, of the given kinds, in the limits table
RecordsOf(e, kinds) == {r \in limits.rows : r.ID_Equipment = e /\ r.kind \in kinds}

\* the mean, rounded to one decimal, and the maximum of the voltages of limit records
MeanVoltage(rows) == Num(RoundHalfEven(SumOf(rows, "v"), Cardinality(rows)))
MaxVoltage(rows) == Num(MaxOf({r.v.n : r \in rows}))

\* the limit update has run
LimitsUpdated == pc \in {"perform_cnec_consistency_check", "return", "done"}

\* C13 as stated: after the limit update a FlowCnec whose element has a voltage through any
\* of its limit records, PATL or TATL, has nominalV = [max voltage] if its name contains
\* "_AT" and [mean voltage] otherwise, the maximum or mean taken over all its records or
\* over its PATL records; nominalV keeps its default only when the element has no voltage.
C13_NominalV ==
    LimitsUpdated =>
        \A k \in DOMAIN crac.flowCnecs :
            LET m == crac.flowCnecs[k]
                all == RecordsOf(m.networkElementId, {"patl", "tatl"})
                patl == RecordsOf(m.networkElementId, {"patl"})
            IN  IF all = {} THEN m.nominalV = <<Num(3300)>>
                ELSE \E rows \in {all, patl} \ {{}} :
                        m.nominalV = IF ContainsUnderscoreAT(m.name)
                                     THEN <<MaxVoltage(rows)>> ELSE <<MeanVoltage(rows)>>

\* C14 as stated: for a curative FlowCnec and each probed quantity, when the element has
\* no TATL value of the quantity but has a PATL value of it, the probe gives the PATL
\* value, whether the element has no TATL record at all or TATL records of other
\* quantities only; for a preventive FlowCnec a probe gives nothing or a PATL value.
C14_FallbackToPatl ==
    limits.loaded =>
        \A k \in DOMAIN crac.flowCnecs : \A col \in Quantities :
            LET m == crac.flowCnecs[k]
                P == ValuesOf(m.networkElementId, "patl", col)
                T == ValuesOf(m.networkElementId, "tatl", col)
                probed == Probe(limits, m, col)
            IN  /\ (m.instant = "curative" /\ col \in limits.columns /\ T = {} /\ P # {})
                    => probed = Num(MinOf(P))
                /\ (m.instant = "preventive" /\ probed.tag = "num")
                    => (P # {} /\ probed = Num(MinOf(P)))

\* C15: every document got from the builder is the one build_crac gives for the data,
\* the network and the arguments of its call alone, whatever calls were made before on the
\* same builder, so that two calls with the same arguments give equal documents also with
\* a call with other arguments in between; and a document got earlier is not changed by a
\* later step.
C15_HistoryIndependent ==
    /\ [](\A i \in DOMAIN history :
            /\ history[i].doc = build_crac(data, network, history[i].args).doc
            /\ \A j \in DOMAIN history :
                history[i].args = history[j].args => history[i].doc = history[j].doc)
    /\ [][\A i \in DOMAIN history : i \in DOMAIN history' /\ history'[i] = history[i]]_vars

\* three documents from one builder: the first and the third for the same arguments, the
\* second for other arguments and with other contingencies
C15_Witness ==
    /\ Len(history) = 3
    /\ \A i \in DOMAIN history : history[i].by = "build_crac"
    /\ history[1].args = history[3].args
    /\ history[2].args # history[1].args
    /\ history[1].doc.contingencies # <<>>
    /\ history[2].doc.contingencies # history[1].doc.contingencies
    /\ history[3].doc.flowCnecs # <<>>

\* the ids of a list of actions, each with "_" put before it
Prefixed(actions) == [j \in DOMAIN actions |-> <<"_", actions[j].networkElementId>>]

\* the ids a serialized list of actions carries, <<>> for a list left out of the document
SerializedIds(na, field) ==
    IF field \in DOMAIN na THEN [j \in DOMAIN na[field] |-> na[field][j].networkElementId]
    ELSE <<>>

\* a serialized document carries, for every element id of the in-memory document c, that
\* id with exactly one "_" before it
OnePrefix(doc, c) ==
    LET cnecs == exclude_3w_transformer_from_flow_cnecs(c.flowCnecs)
    IN  /\ Len(doc.flowCnecs) = Len(cnecs)
        /\ \A k \in DOMAIN cnecs :
            doc.flowCnecs[k].networkElementId = <<"_", cnecs[k].networkElementId>>
        /\ Len(doc.contingencies) = Len(c.contingencies)
        /\ \A k \in DOMAIN c.contingencies :
            doc.contingencies[k].networkElementsIds
                = [j \in DOMAIN c.contingencies[k].networkElementsIds |->
                      <<"_", c.contingencies[k].networkElementsIds[j]>>]
        /\ Len(doc.networkActions) = Len(c.networkActions)
        /\ \A k \in DOMAIN c.networkActions :
            /\ SerializedIds(doc.networkActions[k], "terminalsConnectionActions")
                   = Prefixed(c.networkActions[k].terminalsConnectionActions)
            /\ SerializedIds(doc.networkActions[k], "shuntCompensatorPositionActions")
                   = Prefixed(c.networkActions[k].shuntCompensatorPositionActions)

\* C16: whenever a document has been returned or builder.crac has been read, once or
\* again, the serialized document carries every element id of the FlowCnecs, of the
\* TerminalsActions and ShuntCompensatorPositionActions and of the contingencies as "_"
\* followed by the in-memory id, and serializing leaves the in-memory document unchanged.
C16_OnePrefix ==
    /\ [](pc = "done" => /\ OnePrefix(result, crac)
                         /\ history[Len(history)].doc = result)
    /\ [][(pc' = "done" /\ result' # NoDocument /\ pc \in {"return", "done"})
              => crac' = crac]_vars

\* builder.crac read twice after a build, for a document with a contingency, a FlowCnec
\* and a NetworkAction
C16_Witness ==
    /\ pc = "done"
    /\ Len(history) = 3
    /\ history[1].by = "build_crac" /\ history[2].by = "crac" /\ history[3].by = "crac"
    /\ history[3].doc = history[1].doc
    /\ result.contingencies # <<>>
    /\ result.flowCnecs # <<>>
    /\ \E k \in DOMAIN result.networkActions :
        "terminalsConnectionActions" \in DOMAIN result.networkActions[k]
    /\ \E k \in DOMAIN result.networkActions :
        "shuntCompensatorPositionActions" \in DOMAIN result.networkActions[k]

(***************************************************************************)
(* Properties of HandlerVirtualOperator.handle.                            *)
(***************************************************************************)
\* handle is over: the message was returned or an exception left the handler
Handled == hpc \in {"returned", "raised"}

\* the SAR has a row that counts as a violation under the handler's setting
RelevantViolation(r) ==
    r.isViolation = "true" /\ (message.current_violations_only => r.valueA # NaN)

NoRelevantViolation == ~\E r \in message.sar : RelevantViolation(r)

\* the contingencies of the relevant violations, in the order of processing
DistinctContingencies ==
    SelectSeq(ContingencyOrder,
              LAMBDA c : \E r \in message.sar : RelevantViolation(r) /\ r.Contingency = c)

\* the contingencies for which the handler made the call op, in the order of the calls
CallsOf(op) ==
    LET calls == SelectSeq(events, LAMBDA e : e.op = op)
    IN  [i \in DOMAIN calls |-> calls[i].mrid]

\* C17 as stated: when handle is over for a message that has a content reference, a
\* time horizon and relevant violations with contingencies, the message has been returned
\* and for each distinct contingency, in order, one CRAC was built, one was uploaded and
\* the solver was invoked once, each contingency finished before the next was started.
C17_OneAtATime ==
    ( /\ Handled
      /\ message.content_reference # NoneStr
      /\ message.time_horizon # NoneStr
      /\ DistinctContingencies # <<>>
      /\ raised \in {"none", "TypeError"} )
    => /\ hpc = "returned"
       /\ CallsOf("build_crac") = DistinctContingencies
       /\ CallsOf("upload_object") = DistinctContingencies
       /\ CallsOf("run") = DistinctContingencies

C19_BadMessage ==
    (message.content_reference = NoneStr /\ ~NoRelevantViolation)
    => /\ events = <<>>
       /\ pc = "off"
       /\ Handled => (hpc = "raised" /\ raised = "BadMessage")

\* C29 as stated: in every document build_crac returns the ids of the FlowCnecs are
\* pairwise distinct.
C29_DistinctCnecIds ==
    Returned =>
        \A i, j \in DOMAIN result.flowCnecs :
            result.flowCnecs[i].id = result.flowCnecs[j].id => i = j

\* C28 as stated: whatever the time horizon, for every contingency whose CRAC was
\* uploaded the solver is invoked with a readable parameter source (the overridden one
\* for ID, the default one otherwise), the first contingency and the later ones alike,
\* and the loop gets to the write of the results to the index.
C28_ParameterSource ==
    (Handled /\ CallsOf("upload_object") # <<>>)
    => /\ raised = "none"
       /\ CallsOf("run") = CallsOf("upload_object")
       /\ CallsOf("send_to_elastic_bulk") = CallsOf("upload_object")

(***************************************************************************)
(* Properties of ObjectStorage.get_latest_input_data.                      *)
(***************************************************************************)
\* the records of the index that are of a requested keyword and entity and valid at the
\* scenario time
ValidRecords ==
    { r \in storage.index :
        /\ r.keyword \in storage.type_keyword
        /\ (storage.entity.given => r.entity \in storage.entity.ids)
        /\ r.startDate <= storage.scenario_timestamp
        /\ storage.scenario_timestamp <= r.endDate }

\* the record of the highest Model.version among the valid records of r's group
Latest(r) ==
    \A q \in ValidRecords :
        (q.entity = r.entity /\ q.keyword = r.keyword) => q.version <= r.version

Contents(files) == {files[i] : i \in DOMAIN files}

\* C20 as stated: when every download succeeds, the contents returned are those of the
\* highest version of each (entity, keyword) group of valid records, one for each group.
C20_HighestVersion ==
    (storage.requested /\ storage.returned /\ \A r \in ValidRecords : r.downloadable)
    => /\ Contents(files_downloaded) =
            {r.content_reference : r \in {x \in ValidRecords : Latest(x)}}
       /\ Len(files_downloaded) = Cardinality(Contents(files_downloaded))

(***************************************************************************)
(* Properties of the settings managers.                                    *)
(***************************************************************************)
\* the merge of two dictionary values: at every key the merge of the two dictionaries,
\* else override's value when it has the key, else base's value
RECURSIVE Merged(_, _)
Merged(base, override) ==
    Dict([k \in DOMAIN base.items \cup DOMAIN override.items |->
            IF k \notin DOMAIN override.items THEN base.items[k]
            ELSE IF k \in DOMAIN base.items /\ base.items[k].kind = "dict" /\ override.items[k].kind = "dict"
            THEN Merged(base.items[k], override.items[k])
            ELSE override.items[k]])

\* the override the construction read
OverrideRead ==
    IF settings.override_path # NoneStr /\ settings.exists THEN settings.file ELSE Dict(<<>>)

\* C21: config is the merge of base and override as long as nothing is set; base and
\* override keep their values whatever is set in config afterwards; _deep_merge of the
\* present config with the override gives the merge of their values and changes neither,
\* gives the same again when repeated, and with an empty override gives config's value.
C21_DeepMerge ==
    settings.constructed =>
        LET now == Value(heap, settings.config)
            once == deep_merge(heap, settings.config, settings.override)
            twice == deep_merge(once.h, once.v, settings.override)
            empty == New(heap, Dict(<<>>))
            none == deep_merge(empty.h, settings.config, empty.v)
        IN  /\ Value(heap, settings.base) = DefaultSettings
            /\ Value(heap, settings.override) = OverrideRead
            /\ settings.ops = 0 => now = Merged(DefaultSettings, OverrideRead)
            /\ Value(once.h, once.v) = Merged(now, OverrideRead)
            /\ Value(once.h, settings.config) = now
            /\ Value(twice.h, settings.override) = OverrideRead
            /\ Value(twice.h, twice.v) = Value(once.h, once.v)
            /\ Value(none.h, none.v) = now

\* a config merged from dictionaries on both sides, with a scalar replaced and a key
\* added below, and a value set afterwards inside a dictionary that came from base
C21_Witness ==
    /\ settings.constructed
    /\ settings.class = "RaoSettingsManager"
    /\ "a" \in DOMAIN OverrideRead.items /\ OverrideRead.items["a"].kind = "dict"
    /\ settings.ops > 0
    /\ settings.last.op = "set" /\ settings.last.path = <<"a", "a">> /\ settings.last.exc = "none"
    /\ settings.last.value # Number(1)

\* the value at a path of a config value, when every key of the path exists
RECURSIVE Lookup(_, _)
Lookup(value, path) ==
    IF path = <<>> THEN [found |-> TRUE, v |-> value]
    ELSE IF value.kind = "dict" /\ Head(path) \in DOMAIN value.items
    THEN Lookup(value.items[Head(path)], Tail(path))
    ELSE [found |-> FALSE, v |-> Number(0)]

IsPrefix(p, q) == Len(p) <= Len(q) /\ SubSeq(q, 1, Len(p)) = p

\* C22 as stated: after a set that returned the path holds the value and the paths that
\* are neither prefix nor extension of it hold what they held; get returns the value at
\* the path, and the default, whatever it is, when a key of the path does not exist.
C22_GetSet ==
    settings.constructed =>
        LET now == Value(heap, settings.config)
            last == settings.last
        IN  /\ (last.op = "set" /\ last.exc = "none") =>
                /\ Lookup(now, last.path) = [found |-> TRUE, v |-> last.value]
                /\ \A q \in Paths :
                    (~IsPrefix(q, last.path) /\ ~IsPrefix(last.path, q))
                        => Lookup(now, q) = Lookup(last.before, q)
            /\ last.op = "get" =>
                last.returned = IF Lookup(now, last.path).found
                                THEN Lookup(now, last.path).v ELSE last.default

\* C25 as stated: the construction of a LoadflowSettingsManager ends without exception
\* when there is no override path or the path names a file that holds a mapping, and
\* config is then the merge of the defaults with the file's content; it ends with
\* FileNotFoundError when the file is missing and with ValueError when the file holds no
\* mapping, and with no other exception.
C25_OverrideFile ==
    settings.class = "LoadflowSettingsManager" =>
        /\ (settings.constructed /\ settings.ops = 0) =>
                Value(heap, settings.config) = Merged(DefaultSettings, OverrideRead)
        /\ (settings.override_path = NoneStr \/ (settings.exists /\ settings.file.kind = "dict"))
                => settings.exc = "none"
        /\ settings.exc # "none" =>
                \/ ~settings.exists /\ settings.exc = "FileNotFoundError"
                \/ settings.exists /\ settings.file.kind # "dict" /\ settings.exc = "ValueError"

(***************************************************************************)
(* Properties of S3Minio.                                                  *)
(***************************************************************************)
\* C23: a call renews the token exactly when the clock has reached token_expiration
\* minus the margin; the client and token_expiration are then those of the new token;
\* the request of the call is issued with the client that goes with token_expiration,
\* and, when that token was given a lifetime above the margin, before its margin begins.
C23_PreemptiveRenewal ==
    (s3.constructed /\ s3.last.op # "none") =>
        /\ s3.last.renewed <=> s3.last.at >= s3.last.before - Margin
        /\ s3.last.renewed =>
            (s3.last.client.issued = s3.last.at /\ s3.token_expiration = s3.last.client.Expiration)
        /\ ~s3.last.renewed => s3.token_expiration = s3.last.before
        /\ s3.last.client = s3.client /\ s3.client.Expiration = s3.token_expiration
        /\ s3.last.client.lifetime > Margin => s3.last.at < s3.last.client.Expiration - Margin

\* a call at the very moment the margin begins, which renewed the token
C23_Witness ==
    /\ s3.constructed
    /\ s3.last.op = "query_objects"
    /\ s3.last.at > 0
    /\ s3.last.at = s3.last.before - Margin
    /\ s3.last.renewed
    /\ s3.last.client.lifetime > Margin
    /\ s3.now > s3.last.at

\* the callers that are inside _create_client
Renewing == {t \in Threads : threads[t].pc \in {"_get_credentials", "token_expiration", "client"}}

\* C24 as stated: at most one caller is inside the renewal at a time, no renewal is
\* started for a token another caller has just renewed, and every request is issued
\* with the client that goes with the stored token_expiration.
C24_SerializedRenewal ==
    /\ Cardinality(Renewing) <= 1
    /\ \A t \in Renewing : NeedsRenewal(s3.now, s3.token_expiration) \/ threads[t].pc # "_get_credentials"
    /\ s3.last.op # "none" => s3.last.client = s3.last.stored

(***************************************************************************)
(* Properties of get_limits.                                               *)
(***************************************************************************)
\* C26 as stated: every OperationalLimit of the network has its record in the limits,
\* with the equipment of the Terminal when the set refers to one and the Equipment of
\* the set otherwise, never null, and with the voltage of the terminal's node, null when
\* there is none.
C26_LimitRecords ==
    limits.loaded =>
        \A r \in network.limits :
            \E row \in limits.rows :
                /\ row.id = r.id
                /\ row.ID_Equipment =
                    IF r.terminalEquipment # NaN THEN r.terminalEquipment ELSE r.setEquipment
                /\ row.ID_Equipment # NaN
                /\ row.v = r.v


RECURSIVE Children(_)
\* the objects expanded directly under a value of the flattened output
Children(value) ==
    IF value.kind = "dict"
    THEN UNION {Children(value.items[k]) : k \in DOMAIN value.items}
    ELSE IF value.kind = "list"
    THEN {value.elems[i] : i \in {j \in DOMAIN value.elems : value.elems[j].kind = "dict"}}
    ELSE {}

RECURSIVE NotInsideItself(_, _)
\* no object of the expansion of obj carries the @id of one it is nested in
NotInsideItself(obj, ancestors) ==
    /\ obj.id \notin ancestors
    /\ \A child \in {c \in Children(obj) : c.kind = "dict"} :
            NotInsideItself(child, ancestors \cup {obj.id})

RECURSIVE NestingDepth(_)
NestingDepth(obj) ==
    LET cs == {c \in Children(obj) : c.kind = "dict"}
    IN  IF cs = {} THEN 1
        ELSE 1 + (CHOOSE d \in {NestingDepth(c) : c \in cs} : \A c \in cs : NestingDepth(c) <= d)

SubjectsOfClass == SelectSeq(SubjectOrder, LAMBDA x : Triple(x, "type", "Schedule", FALSE) \in flattener.g)

FlattenerSafe ==
    flattener.constructed =>
        /\ \A i, j \in DOMAIN flattener.stack : flattener.stack[i].s = flattener.stack[j].s => i = j
        /\ \A i \in DOMAIN flattener.stack :
                \A j \in DOMAIN flattener.stack[i].multimap :
                    flattener.stack[i].multimap[j].expanded =>
                        NotInsideItself(flattener.stack[i].multimap[j].value,
                                        {flattener.stack[k].s : k \in 1..i})
        /\ \A i \in DOMAIN flattener.out : NotInsideItself(flattener.out[i], {})
        /\ flattener.pc = "done" =>
                [i \in DOMAIN flattener.out |-> flattener.out[i].id] = SubjectsOfClass

\* C27: build_from_class ends on every graph, cycles over outgoing and incoming edges
\* included; no subject is nested inside its own expansion, and the list returned
\* holds the expansion of every subject of the class exactly once
C27_Terminates == []FlattenerSafe /\ <>(flattener.constructed /\ flattener.pc = "done")

C27_Witness ==
    /\ flattener.constructed
    /\ flattener.pc = "done"
    /\ {Triple("A", "p", "B", FALSE), Triple("B", "p", "A", FALSE), Triple("B", "q", "C", FALSE)} \subseteq flattener.g
    /\ flattener.inline_depth = MaxDepth
    /\ Len(flattener.out) >= 1
    /\ NestingDepth(flattener.out[1]) >= 3


RECURSIVE Flatten(_)
\* the lines of the batches one after the other
Flatten(posts) == IF posts = <<>> THEN <<>> ELSE Head(posts) \o Flatten(Tail(posts))

DocumentsSent ==
    LET sent == SelectSeq(Flatten(elastic.posts), LAMBDA line : line.kind = "document")
    IN  [i \in DOMAIN sent |-> sent[i].id]

\* C30 as stated: for every batch_size >= 1 and every list, send_to_elastic_bulk sends
\* every document exactly once, in the order of the input, each preceded inside its batch
\* by its own index action line; an empty list sends nothing; the value returned is true
\* exactly when every batch succeeded; and id_from_metadata without id_metadata_list raises
\* before anything is sent.
C30_BulkBatches ==
    elastic.called =>
        /\ \A i \in DOMAIN elastic.posts :
             \A k \in DOMAIN elastic.posts[i] :
                elastic.posts[i][k].kind = "document" =>
                    /\ k > 1
                    /\ elastic.posts[i][k - 1].kind = "index"
        /\ elastic.pc = "returned" =>
             /\ DocumentsSent = elastic.json_message_list
             /\ elastic.json_message_list = <<>> => elastic.posts = <<>>
             /\ elastic.returned = AllOk(elastic.response_list)
        /\ (elastic.id_from_metadata /\ ~elastic.id_metadata_list) => elastic.posts = <<>>
        /\ elastic.pc = "raised" => elastic.id_from_metadata /\ ~elastic.id_metadata_list

====
